---- MODULE Spec2Model ----
(***************************************************************************)
(* Model of the MHK3-Registration barcode reader: the browser client's     *)
(* detection debounce and sync guard, the scan route of the backend hosts  *)
(* (express server, edge worker, functions handlers) and the string and    *)
(* property helpers they share.                                            *)
(*                                                                         *)
(* A JavaScript string is a sequence of one-character strings.             *)
(***************************************************************************)
EXTENDS Integers, Sequences, FiniteSets, TLC

VARIABLES
    pureOp,      \* name of the helper under test
    pureIn,      \* its arguments
    pureDone,    \* TRUE once the helper has been applied
    pureOut      \* its result, once applied

VARIABLES
    host,        \* the backend host deployed
    checked,     \* upstream store: the '2025-WD' checkbox of every page
    req          \* the scan requests: position in the handler and its locals

VARIABLES
    now,              \* Date.now()
    lastValue,        \* client: the code last accepted, or null
    lastSeenAt,       \* client: when it was accepted
    syncInFlight,     \* client: a scan request is awaited
    lastSyncedValue,  \* client: the value of the last scan request answered
    requests,         \* the scan requests sent and not yet answered
    dialog,           \* statusDialog.dataset.status
    events            \* history of detections and clears

VARIABLES
    http              \* one deployment and the request it routes

VARIABLES
    cam               \* client: the scanner, its buttons and the calls of startScanner

pureVars == <<pureOp, pureIn, pureDone, pureOut>>

scanVars == <<host, checked, req>>

clientVars == <<now, lastValue, lastSeenAt, syncInFlight, lastSyncedValue,
                requests, dialog, events>>

routeVars == <<http>>

camVars == <<cam>>

vars == <<pureOp, pureIn, pureDone, pureOut, host, checked, req,
          now, lastValue, lastSeenAt, syncInFlight, lastSyncedValue,
          requests, dialog, events, http, cam>>

(***************************************************************************)
(* Strings                                                                 *)
(***************************************************************************)

\* Longest string the helpers are applied to when inputs are enumerated.
MaxLen == 3

\* Characters /\s/ and String.prototype.trim treat as white space.
WhiteSpace == {" ", "\t"}

UpperLetters == <<"A","B","C","D","E","F","G","H","I","J","K","L","M",
                  "N","O","P","Q","R","S","T","U","V","W","X","Y","Z">>

LowerLetters == <<"a","b","c","d","e","f","g","h","i","j","k","l","m",
                  "n","o","p","q","r","s","t","u","v","w","x","y","z">>

\* One character of String.prototype.toLowerCase.
LowerChar(c) ==
    IF \E i \in 1..Len(UpperLetters) : UpperLetters[i] = c
    THEN LowerLetters[CHOOSE i \in 1..Len(UpperLetters) : UpperLetters[i] = c]
    ELSE c

toLowerCase(s) == [i \in 1..Len(s) |-> LowerChar(s[i])]

RECURSIVE trimStart(_)
trimStart(s) ==
    IF s # <<>> /\ Head(s) \in WhiteSpace THEN trimStart(Tail(s)) ELSE s

RECURSIVE trimEnd(_)
trimEnd(s) ==
    IF s # <<>> /\ s[Len(s)] \in WhiteSpace
    THEN trimEnd(SubSeq(s, 1, Len(s) - 1))
    ELSE s

\* String.prototype.trim
trim(s) == trimEnd(trimStart(s))

\* s.replace(/[set]+/g, with): every maximal run of characters of `set`
\* becomes one copy of `with`.
RECURSIVE replaceRuns(_, _, _)
replaceRuns(s, set, with) ==
    IF s = <<>> THEN <<>>
    ELSE IF Head(s) \in set
         THEN LET RECURSIVE skip(_)
                  skip(t) == IF t # <<>> /\ Head(t) \in set THEN skip(Tail(t)) ELSE t
              IN  with \o replaceRuns(skip(Tail(s)), set, with)
         ELSE <<Head(s)>> \o replaceRuns(Tail(s), set, with)

\* All strings over `alphabet` of length at most n.
StringsUpTo(alphabet, n) == UNION {[1..k -> alphabet] : k \in 0..n}

(***************************************************************************)
(* Title matching                                                          *)
(***************************************************************************)

normalizeForMatchCollapsing(value) == replaceRuns(trim(value), WhiteSpace, <<" ">>)

\* normalizeForMatch of the express server and of the edge worker.
normalizeForMatch(value) == replaceRuns(trim(value), WhiteSpace, <<>>)

\* normalize of the functions handlers.
normalize(s) == replaceRuns(trim(s), WhiteSpace, <<>>)

exactMatchTrimmedOnly(h, title, scannedId) ==
    trim(title) = trim(scannedId)

\* The filter predicate of the scan routes: r.title against the scanned id.
exactMatch(h, title, scannedId) ==
    IF h \in {"express", "worker"}
    THEN normalizeForMatch(title) = normalizeForMatch(scannedId)
    ELSE normalize(title) = normalize(scannedId)

Hosts == {"express", "worker", "netlify", "function"}

MatchAlphabet == {"A", "a", " ", "\t"}

\* ' AB  12 ' and 'AB12'
SpacedAB12 == <<" ", "A", "B", " ", " ", "1", "2", " ">>
PlainAB12 == <<"A", "B", "1", "2">>

MatchStrings == StringsUpTo(MatchAlphabet, MaxLen) \cup {SpacedAB12, PlainAB12}

\* Arguments <<host, s>>
NormalizeInputs == Hosts \X MatchStrings

\* Arguments <<host, title, scannedId>>
ExactMatchInputs == Hosts \X MatchStrings \X MatchStrings

ApplyNormalize ==
    /\ pureOp = "normalize"
    /\ ~pureDone
    /\ pureDone' = TRUE
    /\ pureOut' = IF pureIn[1] \in {"express", "worker"}
                  THEN normalizeForMatch(pureIn[2]) ELSE normalize(pureIn[2])
    /\ UNCHANGED <<pureOp, pureIn, scanVars, clientVars, routeVars, camVars>>

ApplyExactMatch ==
    /\ pureOp = "exactMatch"
    /\ ~pureDone
    /\ pureDone' = TRUE
    /\ pureOut' = exactMatch(pureIn[1], pureIn[2], pureIn[3])
    /\ UNCHANGED <<pureOp, pureIn, scanVars, clientVars, routeVars, camVars>>

(***************************************************************************)
(* Candidate keys                                                          *)
(*                                                                         *)
(* The Thai spellings of the source are written with one token per Thai    *)
(* word: "TH:chue" (name), "TH:jing" (real), "TH:nam" and "TH:sakun"       *)
(* (family name), "TH:ekkasan" (document). No token is a letter, white     *)
(* space, a hyphen or an underscore.                                       *)
(***************************************************************************)

\* Characters the regular expression /[\s\-_]+/ of normalizeKey matches.
KeySeparators == WhiteSpace \cup {"-", "_"}

normalizeKeyCaseSensitive(value) == replaceRuns(trim(value), KeySeparators, <<>>)

\* normalizeKey: lower case, trim, then drop white space, hyphens, underscores.
normalizeKey(value) == replaceRuns(trim(toLowerCase(value)), KeySeparators, <<>>)

firstNameCandidates ==
    << <<"f","i","r","s","t"," ","n","a","m","e">>,
       <<"f","i","r","s","t","n","a","m","e">>,
       <<"TH:chue">>,
       <<"TH:chue","TH:jing">> >>

lastNameCandidates ==
    << <<"l","a","s","t"," ","n","a","m","e">>,
       <<"l","a","s","t","n","a","m","e">>,
       <<"s","u","r","n","a","m","e">>,
       <<"TH:nam","TH:sakun">>,
       <<"TH:sakun">> >>

fullNameCandidates ==
    << <<"f","u","l","l"," ","n","a","m","e">>,
       <<"f","u","l","l","n","a","m","e">>,
       <<"n","a","m","e">>,
       <<"TH:chue","-","TH:sakun">>,
       <<"TH:chue","TH:sakun">>,
       <<"TH:chue"," ","TH:nam","TH:sakun">> >>

docCandidates ==
    << <<"d","o","c">>,
       <<"d","o","c","u","m","e","n","t">>,
       <<"TH:ekkasan">>,
       <<"d","o","c","n","a","m","e">>,
       <<"d","o","c"," ","n","a","m","e">> >>

\* JavaScript null.
Null == [type |-> "null"]

\* A page's properties are a sequence of [key, prop] in Object.keys order.
\* getPropertyByCandidates returns the property of the first key, in that
\* order, whose normalized form is a normalized candidate; null when none is.
getPropertyByCandidates(properties, candidates) ==
    LET candidateKeys == {normalizeKey(candidates[i]) : i \in 1..Len(candidates)}
        hits == {i \in 1..Len(properties) :
                    normalizeKey(properties[i].key) \in candidateKeys}
    IN  IF hits = {} THEN Null
        ELSE properties[CHOOSE i \in hits : \A j \in hits : i <= j].prop

\* Inputs: spellings of "first name" that differ in letter case, in the
\* separator between the two words and in padding.
toUpperCase(s) ==
    [i \in 1..Len(s) |->
        IF \E k \in 1..Len(LowerLetters) : LowerLetters[k] = s[i]
        THEN UpperLetters[CHOOSE k \in 1..Len(LowerLetters) : LowerLetters[k] = s[i]]
        ELSE s[i]]

capitalize(s) == IF s = <<>> THEN s ELSE toUpperCase(<<Head(s)>>) \o Tail(s)

CaseForms(w) == {w, toUpperCase(w), capitalize(w)}

KeySeparatorRuns ==
    {<<>>, <<" ">>, <<"_">>, <<"-">>, <<"\t">>, <<" ", " ">>, <<"_", "-">>}

KeyPaddings == {<<>>, <<" ">>}

FirstNameSpellings ==
    {l \o a \o m \o b \o r :
        l \in KeyPaddings, r \in KeyPaddings, m \in KeySeparatorRuns,
        a \in CaseForms(<<"f","i","r","s","t">>),
        b \in CaseForms(<<"n","a","m","e">>)}

\* 'First Name', 'first_name' and 'FIRSTNAME'
KeyFirstSpaceName == <<"F","i","r","s","t"," ","N","a","m","e">>
KeyFirstUnderscoreName == <<"f","i","r","s","t","_","n","a","m","e">>
KeyFIRSTNAME == <<"F","I","R","S","T","N","A","M","E">>

\* Keys no first-name candidate stands for.
OtherKeys ==
    { <<"2","0","2","5","-","W","D">>,
      <<"f","i","r","s","t",".","n","a","m","e">>,
      <<"f","i","r","s","t">>,
      <<"N","a","m","e">>,
      <<"L","a","s","t"," ","N","a","m","e">> }

TextProperty(id, text) == [id |-> id, type |-> "rich_text", plain |-> text]

PropA == TextProperty("a", <<"S","o","m","c","h","a","i">>)
PropB == TextProperty("b", <<"J","a","i","d","e","e">>)

\* 'Name' and 'Full Name': two keys the full-name candidates stand for.
KeyName == <<"N","a","m","e">>
KeyFullName == <<"F","u","l","l"," ","N","a","m","e">>

\* Arguments <<properties, candidates>>
CandidateInputs ==
    LET lists == {firstNameCandidates, lastNameCandidates,
                  fullNameCandidates, docCandidates}
        props ==
            {<<[key |-> k, prop |-> PropA]>> : k \in FirstNameSpellings \cup OtherKeys}
            \cup {<<[key |-> o, prop |-> PropB], [key |-> k, prop |-> PropA]>> :
                    o \in OtherKeys, k \in FirstNameSpellings}
            \cup {<<[key |-> k, prop |-> PropA], [key |-> o, prop |-> PropB]>> :
                    o \in OtherKeys, k \in FirstNameSpellings}
            \cup {<<[key |-> KeyName, prop |-> PropB],
                     [key |-> KeyFullName, prop |-> PropA]>>,
                   <<[key |-> KeyFullName, prop |-> PropA],
                     [key |-> KeyName, prop |-> PropB]>>}
    IN  props \X lists

ApplyGetPropertyByCandidates ==
    /\ pureOp = "getPropertyByCandidates"
    /\ ~pureDone
    /\ pureDone' = TRUE
    /\ pureOut' = getPropertyByCandidates(pureIn[1], pureIn[2])
    /\ UNCHANGED <<pureOp, pureIn, scanVars, clientVars, routeVars, camVars>>

(***************************************************************************)
(* Property codec                                                          *)
(*                                                                         *)
(* A JavaScript value is a record tagged by t. The strings the codec is    *)
(* applied to hold letters, decimal digits, signs and white space: no      *)
(* decimal point, exponent, radix prefix or "Infinity".                    *)
(***************************************************************************)

JsString(s) == [t |-> "string", s |-> s]
JsNumber(n) == [t |-> "number", n |-> n]
JsBoolean(b) == [t |-> "boolean", b |-> b]
JsNull == [t |-> "null"]
JsNaN == [t |-> "NaN"]

Digits == <<"0","1","2","3","4","5","6","7","8","9">>

IsDigit(c) == \E i \in 1..Len(Digits) : Digits[i] = c

DigitValue(c) == (CHOOSE i \in 1..Len(Digits) : Digits[i] = c) - 1

RECURSIVE DigitsValue(_)
DigitsValue(s) ==
    IF s = <<>> THEN 0
    ELSE 10 * DigitsValue(SubSeq(s, 1, Len(s) - 1)) + DigitValue(s[Len(s)])

AllDigits(s) == s # <<>> /\ \A i \in 1..Len(s) : IsDigit(s[i])

\* Number(s) for a string: white space is trimmed, the empty string is 0, a
\* decimal literal with an optional sign is its value, anything else is NaN.
StringToNumber(s) ==
    LET t == trim(s)
    IN  IF t = <<>> THEN JsNumber(0)
        ELSE IF AllDigits(t) THEN JsNumber(DigitsValue(t))
        ELSE IF Head(t) = "-" /\ AllDigits(Tail(t)) THEN JsNumber(0 - DigitsValue(Tail(t)))
        ELSE IF Head(t) = "+" /\ AllDigits(Tail(t)) THEN JsNumber(DigitsValue(Tail(t)))
        ELSE JsNaN

\* Number(value)
JsToNumber(value) ==
    CASE value.t = "string" -> StringToNumber(value.s)
      [] value.t = "boolean" -> JsNumber(IF value.b THEN 1 ELSE 0)
      [] value.t = "null" -> JsNumber(0)
      [] value.t = "undefined" -> JsNaN
      [] OTHER -> value

RECURSIVE NatToString(_)
NatToString(n) ==
    IF n < 10 THEN <<Digits[n + 1]>>
    ELSE NatToString(n \div 10) \o <<Digits[(n % 10) + 1]>>

\* String(value)
JsToString(value) ==
    CASE value.t = "string" -> value.s
      [] value.t = "number" ->
            IF value.n < 0 THEN <<"-">> \o NatToString(0 - value.n)
            ELSE NatToString(value.n)
      [] value.t = "boolean" ->
            IF value.b THEN <<"t","r","u","e">> ELSE <<"f","a","l","s","e">>
      [] value.t = "null" -> <<"n","u","l","l">>
      [] value.t = "undefined" -> <<"u","n","d","e","f","i","n","e","d">>
      [] OTHER -> <<"N","a","N">>

\* Boolean(value)
JsToBoolean(value) ==
    CASE value.t = "string" -> value.s # <<>>
      [] value.t = "number" -> value.n # 0
      [] value.t = "boolean" -> value.b
      [] OTHER -> FALSE

\* value ?? ''
OrEmpty(value) ==
    IF value.t \in {"null", "undefined"} THEN JsString(<<>>) ELSE value

Payload(type, value) == [ok |-> TRUE, type |-> type, value |-> value]

Failure(status, error) == [ok |-> FALSE, status |-> status, error |-> error]

StrTrue == <<"t","r","u","e">>
StrOne == <<"1">>
StrYes == <<"y","e","s">>

NamePayload(type, value) ==
    Payload(type, IF JsToBoolean(value) THEN JsString(JsToString(value)) ELSE JsNull)

\* buildPropertyUpdate of the edge worker's scan-capable version: a thrown
\* Error is caught by fetch, which answers 500.
buildPropertyUpdate(type, value) ==
    CASE type \in {"title", "rich_text"} ->
            Payload(type, JsString(JsToString(OrEmpty(value))))
      [] type = "number" ->
            LET n == IF value.t = "number" THEN value
                     ELSE StringToNumber(JsToString(OrEmpty(value)))
            IN  IF n = JsNaN THEN Failure(500, "Value is not a number")
                ELSE Payload(type, n)
      [] type = "checkbox" ->
            IF value.t = "boolean" THEN Payload(type, value)
            ELSE LET str == toLowerCase(JsToString(OrEmpty(value)))
                 IN  Payload(type, JsBoolean(str = StrTrue \/ str = StrOne \/ str = StrYes))
      [] type \in {"select", "status", "date"} -> NamePayload(type, value)
      [] OTHER -> Failure(500, "Property type not supported by this endpoint")

\* The switch of the express server's property route: it answers 400 itself.
expressPropertyUpdate(type, value) ==
    CASE type \in {"title", "rich_text"} ->
            Payload(type, JsString(JsToString(OrEmpty(value))))
      [] type = "number" ->
            LET n == IF value.t = "number" THEN value
                     ELSE StringToNumber(JsToString(OrEmpty(value)))
            IN  IF n = JsNaN THEN Failure(400, "Value is not a number")
                ELSE Payload(type, n)
      [] type = "checkbox" ->
            IF value.t = "boolean" THEN Payload(type, value)
            ELSE LET str == toLowerCase(JsToString(OrEmpty(value)))
                 IN  Payload(type, JsBoolean(str = StrTrue \/ str = StrOne \/ str = StrYes))
      [] type \in {"select", "status", "date"} -> NamePayload(type, value)
      [] OTHER -> Failure(400, "Property type not supported by this demo endpoint")

\* buildPropertyUpdate of src/worker/src/worker.ts, whose route lets only
\* string values through.
workerTsBuildPropertyUpdate(type, value) ==
    CASE type \in {"title", "rich_text"} -> Payload(type, value)
      [] type = "number" ->
            LET n == StringToNumber(value.s)
            IN  IF n = JsNaN THEN Failure(500, "Value is not a number")
                ELSE Payload(type, n)
      [] type = "checkbox" ->
            Payload(type, JsBoolean(\/ value.s = StrTrue
                                    \/ value.s = StrOne
                                    \/ toLowerCase(value.s) = StrYes))
      [] type \in {"select", "status", "date"} ->
            Payload(type, IF value.s # <<>> THEN value ELSE JsNull)
      [] OTHER -> Failure(500, "Property type not supported by this endpoint")

\* The switch of the functions handler for property updates. A NaN number is
\* sent on (JSON.stringify writes it as null) and the handler answers 200.
netlifyPropertyUpdate(type, value) ==
    CASE type \in {"title", "rich_text"} -> Payload(type, JsString(JsToString(value)))
      [] type = "number" ->
            Payload(type, IF value = JsString(<<>>) THEN JsNull ELSE JsToNumber(value))
      [] type = "checkbox" -> Payload(type, JsBoolean(JsToBoolean(value)))
      [] type \in {"select", "status", "date"} -> NamePayload(type, value)
      [] OTHER -> Failure(400, "Unsupported property type")

\* The codec of each host's property route.
CodecHosts == {"express", "worker", "worker.ts", "netlify"}

propertyUpdate(h, type, value) ==
    CASE h = "express" -> expressPropertyUpdate(type, value)
      [] h = "worker" -> buildPropertyUpdate(type, value)
      [] h = "worker.ts" -> workerTsBuildPropertyUpdate(type, value)
      [] h = "netlify" -> netlifyPropertyUpdate(type, value)

PropertyTypes ==
    {"title", "rich_text", "number", "checkbox", "select", "status", "date",
     "multi_select", "formula"}

CodecStrings ==
    { <<>>, <<" ">>, <<"a","b","c">>, <<"4","2">>, <<" ","4","2"," ">>,
      <<"-","4">>, <<"4","-">>, <<"4"," ","2">>, <<"0">>, <<"1">>,
      <<"t","r","u","e">>, <<"T","R","U","E">>, <<"T","r","u","e">>,
      <<"y","e","s">>, <<"Y","E","S">>, <<"Y","e","s">>, <<"y","e","s"," ">>,
      <<"f","a","l","s","e">>, <<"n","o">>, <<"o","n">> }

CodecValues ==
    {JsString(str) : str \in CodecStrings}
    \cup {JsNumber(42), JsNumber(0), JsBoolean(TRUE), JsBoolean(FALSE), JsNull}

\* Arguments <<host, type, value>>: worker.ts answers 400 to a value that
\* is no string before its codec runs.
CodecInputs ==
    {in \in CodecHosts \X PropertyTypes \X CodecValues :
        in[1] = "worker.ts" => in[3].t = "string"}

ApplyPropertyUpdate ==
    /\ pureOp = "propertyUpdate"
    /\ ~pureDone
    /\ pureDone' = TRUE
    /\ pureOut' = propertyUpdate(pureIn[1], pureIn[2], pureIn[3])
    /\ UNCHANGED <<pureOp, pureIn, scanVars, clientVars, routeVars, camVars>>

(***************************************************************************)
(* Scan route                                                              *)
(*                                                                         *)
(* Hosts: "express" is the standalone server, "worker" the edge worker,    *)
(* "netlify" the functions handler that answers after the update and       *)
(* "function" the functions handler that retrieves the page afterwards.    *)
(* One action is one upstream call together with the handler code that     *)
(* runs, without awaiting, on its answer.                                  *)
(***************************************************************************)

\* Pages of the upstream store.
NumPages == 3

Pages == 1..NumPages

\* The scan requests of one behaviour: a first and a second invocation,
\* which may overlap.
Req == {1, 2}

\* page_size of the scan route's search.
ScanPageSize == 20

\* The properties of the pages of the store, in Object.keys order; page p
\* holds the mapping at position p (cyclically). A property carries its id,
\* its type, the text its inline representation holds (`text`) and the text
\* runs the per-property endpoint answers with (`items`); the text of the
\* '2025-WD' checkbox is the store's current value.
Property(id, type, text, items) ==
    [id |-> id, type |-> type, text |-> text, items |-> items]

KeyAttendance == <<"2", "0", "2", "5", "-", "W", "D">>

StoreProperties ==
    << \* separate first and last name, given inline
       << [key |-> <<"I", "D">>, prop |-> Property("title", "title", <<"1", "2">>, <<>>)],
          [key |-> KeyAttendance, prop |-> Property("wd", "checkbox", <<>>, <<>>)],
          [key |-> <<"F", "i", "r", "s", "t", " ", "N", "a", "m", "e">>, prop |-> Property("fn", "rich_text", <<" ", "S", "o", "m", "c", "h", "a", "i">>, <<>>)],
          [key |-> <<"l", "a", "s", "t", "_", "n", "a", "m", "e">>, prop |-> Property("ln", "rich_text", <<"J", "a", "i", "d", "e", "e">>, <<>>)],
          [key |-> <<"D", "o", "c">>, prop |-> Property("doc", "select", <<"A", "1">>, <<>>)] >>,
       \* a full name whose inline text is empty and must be fetched
       << [key |-> <<"I", "D">>, prop |-> Property("title", "title", <<" ", "1", " ", "2">>, <<>>)],
          [key |-> KeyAttendance, prop |-> Property("wd", "checkbox", <<>>, <<>>)],
          [key |-> <<"F", "U", "L", "L", "-", "N", "A", "M", "E">>, prop |-> Property("full", "rollup", <<>>,
                                            << <<"M", "a", "n", "a", " ">>, <<"D", "e", "e", " ", " ", "J", "a", "i">> >>)] >>,
       \* the title property is called Name, a full-name candidate
       << [key |-> <<"N", "a", "m", "e">>, prop |-> Property("title", "title", <<"a", "b">>, <<>>)],
          [key |-> KeyAttendance, prop |-> Property("wd", "checkbox", <<>>, <<>>)],
          [key |-> <<"d", "o", "c", "u", "m", "e", "n", "t">>, prop |-> Property("doc", "rollup", <<>>, <<>>)] >>,
       \* an untitled page with a surname only
       << [key |-> <<"I", "D">>, prop |-> Property("title", "title", <<>>, <<>>)],
          [key |-> KeyAttendance, prop |-> Property("wd", "checkbox", <<>>, <<>>)],
          [key |-> <<"S", "u", "r", "n", "a", "m", "e">>, prop |-> Property("ln", "rich_text", <<"D", "e", "e">>, <<>>)] >> >>

PageProperties(p) == StoreProperties[((p - 1) % Len(StoreProperties)) + 1]

\* The title of page p: the text of its title property.
PageTitle(p) ==
    LET properties == PageProperties(p)
        t == CHOOSE i \in 1..Len(properties) : properties[i].prop.type = "title"
    IN  properties[t].prop.text

PageUrl(p) == <<"https://www.notion.so/", p>>

JsUndefined == [t |-> "undefined"]

\* Bodies of a scan request: the value of body.id.
ScanIdInputs ==
    { JsString(<<"1", "2">>), JsString(<<" ", "1", "2", " ">>),
      JsString(<<"A", "B">>), JsString(<<" ">>),
      JsString(<<>>), JsNumber(12), JsUndefined }

\* Statuses a failing upstream call answers with.
UpstreamErrors == {409, 429}

\* getPlainTitle / getPlainTitleFromPage: the text runs joined.
getPlainTitle(p) == PageTitle(p)

\* extractTitle of the functions handlers: the text runs joined and trimmed.
extractTitle(p) == trim(PageTitle(p))

\* The projection of a search result: { id, title, url }.
PageSummary(h, p) ==
    [id |-> p,
     title |-> IF h \in {"express", "worker"} THEN getPlainTitle(p) ELSE extractTitle(p),
     url |-> PageUrl(p)]

NoPage == [id |-> 0, title |-> <<>>, url |-> <<>>]

\* Answers of the upstream search: the pages of any set of at most page_size
\* pages, by ascending id.
RECURSIVE Ascending(_)
Ascending(set) ==
    IF set = {} THEN <<>>
    ELSE LET m == CHOOSE x \in set : \A y \in set : x <= y
         IN  <<m>> \o Ascending(set \ {m})

SearchAnswers(pageSize) ==
    {Ascending(set) : set \in {x \in SUBSET Pages : Cardinality(x) <= pageSize}}

Response(status, fields) ==
    [status |-> status, ok |-> status = 200] @@ fields @@
    [scannedId |-> <<>>, pageId |-> 0, title |-> <<>>, matches |-> <<>>,
     firstName |-> <<>>, lastName |-> <<>>, fullName |-> <<>>, doc |-> <<>>]

\* An upstream call as the store sees it.
Call(op, page, prop) == [op |-> op, page |-> page, prop |-> prop]

NoResponse == Response(0, <<>>)

UpstreamFailureIgnored(h, status) ==
    Response(200, <<>>)

\* An upstream failure as the host reports it: the express server and the
\* worker catch the thrown error and answer 500, the functions handlers
\* forward the upstream status.
UpstreamFailure(h, status) ==
    Response(IF h \in {"express", "worker"} THEN 500 ELSE status, <<>>)

NewRequest ==
    [pc |-> "new", id |-> JsUndefined, scannedId |-> <<>>,
     results |-> <<>>, page |-> NoPage, before |-> FALSE,
     calls |-> <<>>, failed |-> "", pageAfterHas |-> FALSE, props |-> "",
     swallowed |-> <<>>,
     response |-> NoResponse]

\* Whether the route goes on to search, and the trimmed id it searches for.
\* The express server tests the id before trimming it, the others after.
scanIdAccepted(h, id) ==
    IF h = "express"
    THEN id.t = "string" /\ id.s # <<>>
    ELSE id.t = "string" /\ trim(id.s) # <<>>

\* The request arrives at the scan route of a host.
ScanReceive(r) ==
    \E id \in ScanIdInputs :
        /\ req[r].pc = "new"
        /\ \A q \in Req : q < r => req[q].pc # "new"
        /\ req' = [req EXCEPT ![r] =
                IF scanIdAccepted(host, id)
                THEN [@ EXCEPT !.pc = "search", !.id = id,
                               !.scannedId = trim(id.s)]
                ELSE [@ EXCEPT !.pc = "done", !.id = id,
                               !.response = Response(400, <<>>)]]
        /\ UNCHANGED <<host, checked, pureVars, clientVars, routeVars, camVars>>

exactMatchesFirstOnly(h, results, scannedId) ==
    LET all == SelectSeq(results, LAMBDA m : exactMatch(h, m.title, scannedId))
    IN  IF all = <<>> THEN all ELSE <<Head(all)>>

exactMatchesAnyCase(h, results, scannedId) ==
    SelectSeq(results,
        LAMBDA m : exactMatch(h, toLowerCase(m.title), toLowerCase(scannedId)))

\* results.filter(...): the summaries whose title matches the scanned id.
exactMatches(h, results, scannedId) ==
    SelectSeq(results, LAMBDA m : exactMatch(h, m.title, scannedId))

\* The search call and the three-way decision on its answer.
ScanSearch(r) ==
    /\ req[r].pc = "search"
    /\ LET call == Call("search", 0, "")
       IN  \/ \E status \in UpstreamErrors :
                req' = [req EXCEPT ![r] =
                    [@ EXCEPT !.pc = "done", !.calls = Append(@, call),
                              !.failed = "search",
                              !.response = UpstreamFailure(host, status)]]
           \/ \E answer \in SearchAnswers(ScanPageSize) :
                LET results == [i \in 1..Len(answer) |-> PageSummary(host, answer[i])]
                    matches == exactMatches(host, results, req[r].scannedId)
                IN  req' = [req EXCEPT ![r] =
                        IF Len(matches) = 0
                        THEN [@ EXCEPT !.pc = "done", !.calls = Append(@, call),
                                       !.results = results,
                                       !.response = Response(404, <<>>)]
                        ELSE IF Len(matches) > 1
                        THEN [@ EXCEPT !.pc = "done", !.calls = Append(@, call),
                                       !.results = results,
                                       !.response = Response(409, [matches |-> matches])]
                        ELSE [@ EXCEPT !.pc = "update", !.calls = Append(@, call),
                                       !.results = results, !.page = matches[1]]]
    /\ UNCHANGED <<host, checked, pureVars, clientVars, routeVars, camVars>>

scanResponseEchoingId(h, scannedId, page, updatedId) ==
    Response(200, [scannedId |-> scannedId,
                   pageId |-> IF h = "express" THEN updatedId ELSE page.id,
                   title |-> scannedId])

\* The fields every host answers a served scan with.
scanResponse(h, scannedId, page, updatedId) ==
    Response(200, [scannedId |-> scannedId,
                   pageId |-> IF h = "express" THEN updatedId ELSE page.id,
                   title |-> page.title])

attendanceUnchanged(store, p) ==
    store

attendanceUpdatedEverywhere(store, p) ==
    [q \in DOMAIN store |-> TRUE]

attendanceToggled(store, p) ==
    [store EXCEPT ![p] = ~@]

\* The store after the update properties: { '2025-WD': { checkbox: true } }
\* of page p.
attendanceUpdated(store, p) ==
    [store EXCEPT ![p] = TRUE]

\* The update call: PATCH of the page with '2025-WD': { checkbox: true }.
ScanUpdate(r) ==
    /\ req[r].pc = "update"
    /\ LET page == req[r].page
           call == Call("update", page.id, "2025-WD")
       IN  \/ \E status \in UpstreamErrors :
                /\ req' = [req EXCEPT ![r] =
                        [@ EXCEPT !.pc = "done", !.calls = Append(@, call),
                                  !.failed = "update",
                                  !.response = UpstreamFailure(host, status)]]
                /\ UNCHANGED <<host, checked, pureVars, clientVars, routeVars, camVars>>
           \/ /\ checked' = attendanceUpdated(checked, page.id)
              /\ UNCHANGED <<host, pureVars, clientVars, routeVars, camVars>>
              /\ req' = [req EXCEPT ![r] =
                    IF host \in {"express", "netlify"}
                    THEN [@ EXCEPT !.pc = "done", !.calls = Append(@, call),
                                   !.before = checked[page.id],
                                   !.response = scanResponse(host, req[r].scannedId,
                                                             page, page.id)]
                    ELSE [@ EXCEPT !.pc = "retrieve", !.calls = Append(@, call),
                                   !.before = checked[page.id]]]

\* const x = v; body(x): v is evaluated once, then the body.
With(v, body(_)) == CHOOSE y \in {body(x) : x \in {v}} : TRUE

\* The property types propertyPlainText has a case for.
PlainTextTypes ==
    {"title", "rich_text", "number", "checkbox", "status", "date", "select",
     "multi_select", "people", "email", "phone_number", "url", "formula", "rollup"}

\* propertyPlainText: the trimmed text of a property of a known type, the
\* empty string for null and for any other type.
propertyPlainText(prop) ==
    IF prop.type \in PlainTextTypes THEN trim(prop.text) ELSE <<>>

\* parts.filter(Boolean).join(sep)
RECURSIVE joinNonEmpty(_, _)
joinNonEmpty(parts, sep) ==
    IF parts = <<>> THEN <<>>
    ELSE IF Head(parts) = <<>> THEN joinNonEmpty(Tail(parts), sep)
    ELSE LET rest == joinNonEmpty(Tail(parts), sep)
         IN  IF rest = <<>> THEN Head(parts) ELSE Head(parts) \o sep \o rest

\* propertyItemsPlainText: the text runs of the per-property answer, each
\* trimmed, the non-empty ones joined by a space.
propertyItemsPlainText(items) ==
    trim(joinNonEmpty([i \in 1..Len(items) |-> trim(items[i])], <<" ">>))

getCandidatePropertyTextInlineOnly(properties, candidates, fetchFails) ==
    With(getPropertyByCandidates(properties, candidates), LAMBDA prop :
        [text |-> propertyPlainText(prop), fetched |-> FALSE, prop |-> "",
         failed |-> FALSE])

\* getCandidatePropertyText: the inline text of the candidate property, or,
\* when that is empty and the property exists, the text of one per-property
\* fetch (the empty string when the fetch fails). `fetched` tells whether the
\* fetch was issued.
getCandidatePropertyText(properties, candidates, fetchFails) ==
    With(getPropertyByCandidates(properties, candidates), LAMBDA prop :
    With(propertyPlainText(prop), LAMBDA direct :
        IF direct # <<>>
        THEN [text |-> direct, fetched |-> FALSE, prop |-> "", failed |-> FALSE]
        ELSE IF prop = Null
        THEN [text |-> <<>>, fetched |-> FALSE, prop |-> "", failed |-> FALSE]
        ELSE [text |-> IF fetchFails THEN <<>> ELSE propertyItemsPlainText(prop.items),
              fetched |-> TRUE, prop |-> prop.id, failed |-> fetchFails]))

splitFullNameAtLastRun(fullName) ==
    LET str == replaceRuns(trim(fullName), WhiteSpace, <<" ">>)
        spaces == {i \in 1..Len(str) : str[i] = " "}
    IN  IF spaces = {} THEN [firstName |-> str, lastName |-> <<>>]
        ELSE LET last == CHOOSE i \in spaces : \A j \in spaces : i >= j
             IN  [firstName |-> SubSeq(str, 1, last - 1),
                  lastName |-> SubSeq(str, last + 1, Len(str))]

\* splitFullName: the first token and the rest of the name, white-space runs
\* collapsed.
splitFullName(fullName) ==
    LET str == replaceRuns(trim(fullName), WhiteSpace, <<" ">>)
        spaces == {i \in 1..Len(str) : str[i] = " "}
    IN  IF spaces = {} THEN [firstName |-> str, lastName |-> <<>>]
        ELSE LET first == CHOOSE i \in spaces : \A j \in spaces : i <= j
             IN  [firstName |-> SubSeq(str, 1, first - 1),
                  lastName |-> SubSeq(str, first + 1, Len(str))]

\* The properties of page p as a retrieve answers them.
RetrievedProperties(p, isChecked) ==
    LET properties == PageProperties(p)
    IN  [i \in 1..Len(properties) |->
            IF properties[i].key = KeyAttendance
            THEN [properties[i] EXCEPT !.prop.text =
                        IF isChecked THEN StrTrue ELSE <<"f","a","l","s","e">>]
            ELSE properties[i]]

\* The name and document fields of the answer and the per-property fetches
\* issued for them; `fails` names the fetches that fail.
extractFields(properties, fails) ==
    With(getCandidatePropertyText(properties, firstNameCandidates, "first" \in fails),
         LAMBDA first :
    With(getCandidatePropertyText(properties, lastNameCandidates, "last" \in fails),
         LAMBDA last :
    With(trim(joinNonEmpty(<<first.text, last.text>>, <<" ">>)),
         LAMBDA joined :
    With(IF joined = <<>>
         THEN getCandidatePropertyText(properties, fullNameCandidates, "full" \in fails)
         ELSE [text |-> joined, fetched |-> FALSE, prop |-> "", failed |-> FALSE],
         LAMBDA full :
    With(IF first.text = <<>> /\ last.text = <<>> /\ full.text # <<>>
         THEN splitFullName(full.text)
         ELSE [firstName |-> first.text, lastName |-> last.text],
         LAMBDA split :
    With(getCandidatePropertyText(properties, docCandidates, "doc" \in fails),
         LAMBDA doc :
        [firstName |-> split.firstName,
         lastName |-> split.lastName,
         fullName |-> IF full.text # <<>> THEN full.text
                      ELSE trim(joinNonEmpty(<<split.firstName, split.lastName>>, <<" ">>)),
         doc |-> doc.text,
         fetches |-> SelectSeq(<<first, last, full, doc>>, LAMBDA f : f.fetched)]))))))

\* The per-property fetches a scan may issue, by the field they are for.
FetchKinds == {"first", "last", "full", "doc"}

\* extractFields of every page, tabulated once (@@ makes the table explicit).
FieldsOf ==
    [in \in Pages \X BOOLEAN \X SUBSET FetchKinds |->
        extractFields(RetrievedProperties(in[1], in[2]), in[3])] @@ <<>>

\* Inputs of getCandidatePropertyText: a page with one property, whose key
\* is a first-name key, a document key or neither, whose type has a
\* plain-text case or none, and whose inline text and per-property answer
\* are empty, blank or not.
CandidateTextKeys ==
    {KeyFirstSpaceName, <<"D", "o", "c">>, <<"N", "o", "t", "e">>}

CandidateTextProperties ==
    {Property("p", type, text, items) :
        type \in {"rich_text", "rollup", "files"},
        text \in {<<>>, <<" ">>, <<" ", "A">>},
        items \in {<<>>, << <<" ">> >>, << <<"B", " ">>, <<>>, <<"C">> >>}}

\* Arguments <<properties, candidates, fetchFails>>
CandidateTextInputs ==
    {<<[key |-> k, prop |-> prop]>> :
        k \in CandidateTextKeys, prop \in CandidateTextProperties}
    \X {firstNameCandidates, docCandidates} \X BOOLEAN

ApplyGetCandidatePropertyText ==
    /\ pureOp = "getCandidatePropertyText"
    /\ ~pureDone
    /\ pureDone' = TRUE
    /\ pureOut' = getCandidatePropertyText(pureIn[1], pureIn[2], pureIn[3])
    /\ UNCHANGED <<pureOp, pureIn, scanVars, clientVars, routeVars, camVars>>

\* Inputs of the extraction: pages with or without a first name, a last name
\* and a full name; a name is given inline, or has to be fetched.
KeyLastName == <<"L", "a", "s", "t", " ", "N", "a", "m", "e">>

FirstNameProperties ==
    {Property("fn", "rich_text", <<"A", "n", "n">>, <<>>),
     Property("fn", "rollup", <<>>, << <<"A", "l">> >>)}

LastNameProperties ==
    {Property("ln", "rich_text", <<"L", "e", "e">>, <<>>),
     Property("ln", "rich_text", <<>>, <<>>)}

FullNameProperties ==
    {Property("full", "rich_text", <<"B", "o", " ", " ", "C", "y", "\t", " ", "D">>, <<>>),
     Property("full", "rich_text", <<"S", "o", "l", "o", " ">>, <<>>),
     Property("full", "rollup", <<>>, << <<"M", "a">>, <<"D", " ", " ", "J">> >>),
     Property("full", "rich_text", <<" ">>, <<>>)}

\* Zero or one property under the key.
Optional(key, props) ==
    {<<>>} \cup {<<[key |-> key, prop |-> prop]>> : prop \in props}

\* Arguments <<properties, fails>>
ExtractInputs ==
    {first \o last \o full :
        first \in Optional(KeyFirstSpaceName, FirstNameProperties),
        last \in Optional(KeyLastName, LastNameProperties),
        full \in Optional(KeyFullName, FullNameProperties)}
    \X SUBSET {"first", "last", "full"}

ApplyExtractFields ==
    /\ pureOp = "extractFields"
    /\ ~pureDone
    /\ pureDone' = TRUE
    /\ pureOut' = extractFields(pureIn[1], pureIn[2])
    /\ UNCHANGED <<pureOp, pureIn, scanVars, clientVars, routeVars, camVars>>

\* The pages the upstream search ranks for a query, when more than
\* page_size of them match it.
RankedPages == 22

\* At most this many of the ranked pages are titled like the scanned id.
MaxDuplicates == 3

searchWholeRanking(ranking, pageSize) ==
    ranking

\* The answer of the upstream search: the first page_size pages of its
\* ranking.
searchPage(ranking, pageSize) ==
    SubSeq(ranking, 1, IF Len(ranking) < pageSize THEN Len(ranking) ELSE pageSize)

\* The ranking in which the pages at the places `duplicates` are titled like
\* the id '12' ('12' at odd places, ' 1 2' at even ones) and the others 'AB'.
Ranking(duplicates) ==
    [i \in 1..RankedPages |->
        [id |-> i,
         title |-> IF i \notin duplicates THEN <<"A", "B">>
                   ELSE IF i % 2 = 1 THEN <<"1", "2">> ELSE <<" ", "1", " ", "2">>,
         url |-> PageUrl(i)]]

\* Arguments <<host, ranking, scannedId>>
ScanCappedInputs ==
    Hosts
    \X {Ranking(d) : d \in {x \in SUBSET (1..RankedPages) :
                                Cardinality(x) <= MaxDuplicates}}
    \X {<<"1", "2">>}

\* The scan route from the search to its answer, every upstream call
\* succeeding: the search answers the first page_size pages of the ranking.
scanCapped(h, ranking, scannedId) ==
    With(exactMatches(h, searchPage(ranking, ScanPageSize), scannedId),
         LAMBDA matches :
            IF Len(matches) = 0 THEN Response(404, <<>>)
            ELSE IF Len(matches) > 1 THEN Response(409, [matches |-> matches])
            ELSE scanResponse(h, scannedId, matches[1], matches[1].id))

ApplyScanCapped ==
    /\ pureOp = "scanCapped"
    /\ ~pureDone
    /\ pureDone' = TRUE
    /\ pureOut' = scanCapped(pureIn[1], pureIn[2], pureIn[3])
    /\ UNCHANGED <<pureOp, pureIn, scanVars, clientVars, routeVars, camVars>>

\* The page object an upstream call answered: the call it answers, whether it
\* carries a properties mapping, and the mapping, named by the page and the
\* state of its check box.
PageAnswer(source, has, page, isChecked) ==
    [source |-> source, has |-> has, properties |-> <<page, isChecked>>]

propertiesOfUpdate(pageAfter, updated) ==
    updated

\* pageAfter?.properties ?? updated?.properties
propertiesUsed(pageAfter, updated) ==
    IF pageAfter.has THEN pageAfter ELSE updated

\* What follows a retrieve that answered: the properties used, from the
\* retrieve answer or from the update response, and the fields extracted from
\* them; `has` tells whether the retrieve answer carries properties, `fails`
\* names the per-property fetches that fail.
scanOutcome(page, isChecked, has, fails) ==
    LET pageAfter == PageAnswer("retrieve", has, page, isChecked)
        updated == PageAnswer("update", TRUE, page, TRUE)
        props == propertiesUsed(pageAfter, updated)
    IN  [has |-> has, source |-> props.source,
         fields |-> FieldsOf[<<props.properties[1], props.properties[2], fails>>]]

\* The retrieve of the page after the update, the per-property fetches and
\* the answer built from them.
ScanRetrieve(r) ==
    /\ req[r].pc = "retrieve"
    /\ LET page == req[r].page
           call == Call("retrieve", page.id, "")
       IN  \/ \E status \in UpstreamErrors :
                req' = [req EXCEPT ![r] =
                    [@ EXCEPT !.pc = "done", !.calls = Append(@, call),
                              !.failed = "retrieve",
                              !.response = UpstreamFailure(host, status)]]
           \/ \E out \in {scanOutcome(page.id, checked[page.id], has, fails) :
                            has \in BOOLEAN, fails \in SUBSET FetchKinds} :
                LET fields == out.fields
                    fetches == [i \in 1..Len(fields.fetches) |->
                                    Call("property", page.id, fields.fetches[i].prop)]
                    failures == SelectSeq(fields.fetches, LAMBDA f : f.failed)
                IN  req' = [req EXCEPT ![r] =
                        [@ EXCEPT !.pc = "done",
                                  !.calls = Append(@, call) \o fetches,
                                  !.pageAfterHas = out.has,
                                  !.props = out.source,
                                  !.swallowed = [i \in 1..Len(failures) |->
                                                    failures[i].prop],
                                  !.response =
                                      [firstName |-> fields.firstName,
                                       lastName |-> fields.lastName,
                                       fullName |-> fields.fullName,
                                       doc |-> fields.doc]
                                      @@ scanResponse(host, req[r].scannedId,
                                                      page, page.id)]]
    /\ UNCHANGED <<host, checked, pureVars, clientVars, routeVars, camVars>>

ScanNext ==
    \E r \in Req :
        \/ ScanReceive(r)
        \/ ScanSearch(r)
        \/ ScanUpdate(r)
        \/ ScanRetrieve(r)

(***************************************************************************)
(* Browser client                                                          *)
(*                                                                         *)
(* The decoder reports codabar codes with their start and stop characters; *)
(* the clock is Date.now() in milliseconds. events is the history of the   *)
(* handler calls that decoded a code and of the clears.                    *)
(***************************************************************************)

\* Latest clock value, in milliseconds since the page was loaded.
MaxTime == 2400

\* Longest history recorded.
MaxEvents == 4

\* The window of the duplicate-detection test of detectedHandler.
DebounceMs == 1200

\* The clock advances between two events by one of these.
TickSteps == {400, 1200}

\* What the decoder hands to the handler: no codeResult, or a code.
Detections ==
    {JsUndefined,
     JsString(<<"A", "B">>),
     JsString(<<"A", "1", "2", "B">>),
     JsString(<<"A", "1", "3", "A">>)}

\* String.prototype.slice(start, end).
slice(s, start, end) ==
    LET from == IF start < 0
                THEN (IF Len(s) + start < 0 THEN 0 ELSE Len(s) + start)
                ELSE (IF start > Len(s) THEN Len(s) ELSE start)
        to == IF end < 0
              THEN (IF Len(s) + end < 0 THEN 0 ELSE Len(s) + end)
              ELSE (IF end > Len(s) THEN Len(s) ELSE end)
    IN  SubSeq(s, from + 1, to)

\* data?.codeResult?.code.slice(1, -1)
decodedCode(data) ==
    IF data.t = "undefined" THEN JsUndefined ELSE JsString(slice(data.s, 1, -1))

\* !code
Falsy(v) == v.t \in {"undefined", "null"} \/ (v.t = "string" /\ v.s = <<>>)

Event(kind, code, at, accepted, sync, busy) ==
    [kind |-> kind, code |-> code, at |-> at, accepted |-> accepted,
     sync |-> sync, busy |-> busy]

debouncedSameInstant(code, last, seenAt, clock) ==
    code = last /\ clock - seenAt < 1

\* The duplicate test: code === lastValue && now - lastSeenAt < 1200.
debounced(code, last, seenAt, clock) ==
    code = last /\ clock - seenAt < DebounceMs

syncGuardNotSyncedOnly(value, inFlight, lastSynced) ==
    value # <<>> /\ lastSynced # JsString(value)

syncGuardInFlightOnly(value, inFlight, lastSynced) ==
    value # <<>> /\ ~inFlight

\* Whether syncScannedIdToNotion goes on to send the scan request.
syncGuard(value, inFlight, lastSynced) ==
    /\ value # <<>>
    /\ ~inFlight
    /\ lastSynced # JsString(value)

\* Date.now() has advanced.
Tick ==
    /\ \E d \in TickSteps : now + d <= MaxTime /\ now' = now + d
    /\ UNCHANGED <<lastValue, lastSeenAt, syncInFlight, lastSyncedValue,
                   requests, dialog, events, pureVars, scanVars, routeVars, camVars>>

\* detectedHandler, with the synchronous part of syncScannedIdToNotion it
\* calls: up to the await of the scan request.
Detected(data) ==
    LET code == decodedCode(data)
    IN  /\ Len(events) < MaxEvents
        /\ IF Falsy(code)
           THEN UNCHANGED <<lastValue, lastSeenAt, syncInFlight, lastSyncedValue,
                            requests, events>>
           ELSE IF debounced(code, lastValue, lastSeenAt, now)
           THEN /\ events' = Append(events, Event("detect", code.s, now, FALSE, FALSE,
                                                   syncInFlight))
                /\ UNCHANGED <<lastValue, lastSeenAt, syncInFlight,
                               lastSyncedValue, requests>>
           ELSE LET value == trim(code.s)
                    sends == syncGuard(value, syncInFlight, lastSyncedValue)
                IN  /\ lastValue' = code
                    /\ lastSeenAt' = now
                    /\ syncInFlight' = IF sends THEN TRUE ELSE syncInFlight
                    /\ requests' = IF sends THEN Append(requests, value) ELSE requests
                    /\ events' = Append(events, Event("detect", code.s, now, TRUE, sends,
                                                        syncInFlight))
                    /\ UNCHANGED lastSyncedValue
        /\ UNCHANGED <<now, dialog, pureVars, scanVars, routeVars, camVars>>

\* The clear button, or the clear button of the status dialog.
ClearAll ==
    /\ Len(events) < MaxEvents
    /\ lastValue' = JsNull
    /\ lastSyncedValue' = JsNull
    /\ dialog' = ""
    /\ events' = Append(events, Event("clear", <<>>, now, FALSE, FALSE, syncInFlight))
    /\ UNCHANGED <<now, lastSeenAt, syncInFlight, requests, pureVars, scanVars, routeVars, camVars>>

inFlightKept(inFlight) ==
    inFlight

\* finally { syncInFlight = false }
inFlightAfterSync(inFlight) ==
    FALSE

\* The scan request was answered 2xx: the try block after the await, then
\* the finally block.
SyncResolved ==
    /\ requests # <<>>
    /\ lastSyncedValue' = JsString(Head(requests))
    /\ dialog' = "success"
    /\ syncInFlight' = inFlightAfterSync(syncInFlight)
    /\ requests' = Tail(requests)
    /\ UNCHANGED <<now, lastValue, lastSeenAt, events, pureVars, scanVars, routeVars, camVars>>

\* apiFetch threw: the catch block, then the finally block.
SyncRejected ==
    /\ requests # <<>>
    /\ lastSyncedValue' = JsString(Head(requests))
    /\ dialog' = "error"
    /\ syncInFlight' = inFlightAfterSync(syncInFlight)
    /\ requests' = Tail(requests)
    /\ UNCHANGED <<now, lastValue, lastSeenAt, events, pureVars, scanVars, routeVars, camVars>>

ClientNext ==
    \/ Tick
    \/ \E data \in Detections : Detected(data)
    \/ ClearAll
    \/ SyncResolved
    \/ SyncRejected

(***************************************************************************)
(* Request routing and the property route                                  *)
(*                                                                         *)
(* Hosts: "express", "worker" (src/server/index.mjs), "worker.ts" (the     *)
(* older worker), "netlify" (the functions handler for property updates)   *)
(* and "function" (the functions handler for scans). The platform hands a  *)
(* functions handler every request of its path; express itself answers     *)
(* the requests that match none of its registered routes, so only the      *)
(* registered ones are drawn for it. A request routed to the scan route is *)
(* served as the scan route section describes. A property name is a        *)
(* string of one token, possibly padded; page 1 holds one property per     *)
(* type, named after its type.                                             *)
(***************************************************************************)

RouteHosts == {"express", "worker", "worker.ts", "netlify", "function"}

Methods == {"GET", "POST", "PATCH", "OPTIONS", "DELETE"}

PathHealth == "/api/health"
PathSearch == "/api/notion/search"
PathScan == "/api/notion/scan"
PathProperty == "/api/notion/pages/1/property"
PathOther == "/api/notion/pages/1"

Paths == {PathHealth, PathSearch, PathScan, PathProperty, PathOther}

\* The route each path belongs to, with the method the route accepts.
KnownRoutes(h) ==
    {<<"GET", PathHealth>>, <<"POST", PathSearch>>, <<"PATCH", PathProperty>>}
    \cup (IF h = "worker.ts" THEN {} ELSE {<<"POST", PathScan>>})

\* No Origin header; ALLOWED_ORIGIN not set.
NoOrigin == ""

ConfiguredOrigin == "https://app.example"

\* Origins /^http:\/\/(localhost|127\.0\.0\.1):\d+$/ matches.
LocalOrigins == {"http://localhost:5173", "http://127.0.0.1:8080"}

Origins == {NoOrigin, ConfiguredOrigin, "https://other.example"} \cup LocalOrigins

PropertyNames ==
    {JsUndefined, JsString(<<>>), JsString(<<"missing">>),
     JsString(<<" ", "number">>)}
    \cup {JsString(<<type>>) : type \in PropertyTypes}

PropertyValues ==
    {JsUndefined, JsNull, JsString(<<>>), JsString(<<"a", "b", "c">>),
     JsString(<<"4", "2">>), JsNumber(42), JsBoolean(TRUE)}

Queries == {JsUndefined, JsString(<<"1", "2">>)}

HttpRequest(method, path, origin, propertyName, value, query) ==
    [method |-> method, path |-> path, origin |-> origin,
     propertyName |-> propertyName, value |-> value, query |-> query]

\* The requests a host may receive.
HttpRequests(h) ==
    LET routed == IF h = "express" THEN KnownRoutes(h) ELSE Methods \X Paths
    IN  {HttpRequest(mp[1], mp[2], origin, JsUndefined, JsUndefined, JsUndefined) :
            mp \in {x \in routed : x[2] \notin {PathProperty, PathSearch}},
            origin \in Origins}
        \cup {HttpRequest(mp[1], mp[2], origin, JsUndefined, JsUndefined, query) :
                mp \in {x \in routed : x[2] = PathSearch},
                origin \in Origins, query \in Queries}
        \cup {HttpRequest(mp[1], mp[2], origin, name, value, JsUndefined) :
                mp \in {x \in routed : x[2] = PathProperty},
                origin \in Origins, name \in PropertyNames, value \in PropertyValues}

\* page.properties[propertyName].type on page 1; "" when there is no such
\* property.
PropertyTypeOf(name) ==
    IF Len(name) = 1 /\ name[1] \in PropertyTypes THEN name[1] ELSE ""

originRejectedExactOnly(allowed, origin) ==
    allowed # NoOrigin /\ origin # NoOrigin /\ origin # allowed

\* The origin test of the workers' fetch.
originRejected(allowed, origin) ==
    /\ allowed # NoOrigin
    /\ origin # NoOrigin
    /\ origin # allowed
    /\ origin \notin LocalOrigins

\* A request answered before any upstream call.
Answered(status) == [pc |-> "done", status |-> status, name |-> <<>>]

\* The handler goes on with step pc for property name.
Proceed(pc, name) == [pc |-> pc, status |-> 0, name |-> name]

\* !query || typeof query !== 'string'
nonEmptyString(v) == v.t = "string" /\ v.s # <<>>

\* The property route of the workers up to the page retrieve; worker.ts lets
\* only string values through.
workerPropertyRoute(h, request) ==
    IF ~nonEmptyString(request.propertyName) THEN Answered(400)
    ELSE IF h = "worker" /\ request.value.t = "undefined" THEN Answered(400)
    ELSE IF h = "worker.ts" /\ request.value.t # "string" THEN Answered(400)
    ELSE Proceed("retrieve", request.propertyName.s)

\* fetch of the workers up to the first upstream call.
workerFetch(h, token, allowed, request) ==
    IF ~token THEN Answered(500)
    ELSE IF request.method = "OPTIONS" THEN Answered(204)
    ELSE IF originRejected(allowed, request.origin) THEN Answered(403)
    ELSE IF request.path = PathHealth /\ request.method = "GET" THEN Answered(200)
    ELSE IF request.path = PathSearch /\ request.method = "POST"
    THEN (IF nonEmptyString(request.query) THEN Proceed("search", <<>>)
          ELSE Answered(400))
    ELSE IF h = "worker" /\ request.path = PathScan /\ request.method = "POST"
    THEN Proceed("scan", <<>>)
    ELSE IF request.path = PathProperty /\ request.method = "PATCH"
    THEN workerPropertyRoute(h, request)
    ELSE Answered(404)

\* The registered routes of the express server up to the first upstream
\* call.
expressRoute(request) ==
    IF request.path = PathHealth THEN Answered(200)
    ELSE IF request.path = PathSearch
    THEN (IF nonEmptyString(request.query) THEN Proceed("search", <<>>)
          ELSE Answered(400))
    ELSE IF request.path = PathScan THEN Proceed("scan", <<>>)
    ELSE IF ~nonEmptyString(request.propertyName) THEN Answered(400)
    ELSE IF request.value.t = "undefined" THEN Answered(400)
    ELSE Proceed("retrieve", request.propertyName.s)

\* The functions handler for scans up to the scan route's own checks.
functionScanHandler(token, request) ==
    IF request.method = "OPTIONS" THEN Answered(204)
    ELSE IF request.method # "POST" THEN Answered(405)
    ELSE IF ~token THEN Answered(500)
    ELSE Proceed("scan", <<>>)

\* The functions handler for property updates up to the page retrieve.
netlifyPropertyHandler(token, request) ==
    IF request.method = "OPTIONS" THEN Answered(204)
    ELSE IF request.method # "PATCH" THEN Answered(405)
    ELSE IF ~token THEN Answered(500)
    ELSE IF request.path # PathProperty THEN Answered(400)
    ELSE IF request.propertyName.t # "string" \/ trim(request.propertyName.s) = <<>>
    THEN Answered(400)
    ELSE Proceed("retrieve", trim(request.propertyName.s))

route(h, token, allowed, request) ==
    CASE h \in {"worker", "worker.ts"} -> workerFetch(h, token, allowed, request)
      [] h = "express" -> expressRoute(request)
      [] h = "function" -> functionScanHandler(token, request)
      [] h = "netlify" -> netlifyPropertyHandler(token, request)

\* The status a failed upstream call is answered with: the express server
\* and the workers catch the thrown error, the functions handlers forward
\* the upstream status.
routeFailureStatus(h, status) ==
    IF h \in {"express", "worker", "worker.ts"} THEN 500 ELSE status

\* Statuses a failing upstream call of the search and property routes
\* answers with; 400 is the upstream's own validation error.
RouteUpstreamErrors == UpstreamErrors \cup {400}

NoRequest ==
    HttpRequest("", "", NoOrigin, JsUndefined, JsUndefined, JsUndefined)

\* A deployment that has received nothing yet.
RouteStart(h, token, allowed) ==
    [host |-> h, token |-> token, allowed |-> allowed, pc |-> "idle",
     request |-> NoRequest, name |-> <<>>, type |-> "", typed |-> JsUndefined,
     calls |-> <<>>, failed |-> FALSE, written |-> <<>>, status |-> 0]

\* The deployments: only the workers read ALLOWED_ORIGIN, and the express
\* server exits at start without a token.
RouteStarts ==
    {RouteStart(x[1], x[2], x[3]) :
        x \in {y \in RouteHosts \X BOOLEAN \X {NoOrigin, ConfiguredOrigin} :
                    /\ y[1] = "express" => y[2]
                    /\ y[1] \notin {"worker", "worker.ts"} => y[3] = NoOrigin}}

RouteIdle == RouteStart("worker", TRUE, NoOrigin)

\* A request arrives and is handled up to its first upstream call.
RouteReceive ==
    /\ http.pc = "idle"
    /\ \E request \in HttpRequests(http.host) :
            LET to == route(http.host, http.token, http.allowed, request)
            IN  http' = [http EXCEPT !.request = request, !.pc = to.pc,
                                     !.status = to.status, !.name = to.name]
    /\ UNCHANGED <<pureVars, scanVars, clientVars, camVars>>

\* The search route: the upstream search and the answer.
RouteSearch ==
    /\ http.pc = "search"
    /\ \E ok \in BOOLEAN, status \in RouteUpstreamErrors :
            http' = [http EXCEPT
                        !.pc = "done",
                        !.calls = Append(@, "search"),
                        !.failed = ~ok,
                        !.status = IF ok THEN 200
                                   ELSE routeFailureStatus(http.host, status)]
    /\ UNCHANGED <<pureVars, scanVars, clientVars, camVars>>

\* The property route: the page retrieve, the lookup of the property and the
\* payload built for its type.
RouteRetrieve ==
    /\ http.pc = "retrieve"
    /\ \/ \E status \in RouteUpstreamErrors :
            http' = [http EXCEPT
                        !.pc = "done",
                        !.calls = Append(@, "retrieve"),
                        !.failed = TRUE,
                        !.status = routeFailureStatus(http.host, status)]
       \/ LET type == PropertyTypeOf(http.name)
              typed == propertyUpdate(http.host, type, http.request.value)
          IN  http' =
                IF type = ""
                THEN [http EXCEPT !.pc = "done", !.calls = Append(@, "retrieve"),
                                  !.status = 400]
                ELSE IF ~typed.ok
                THEN [http EXCEPT !.pc = "done", !.calls = Append(@, "retrieve"),
                                  !.type = type, !.status = typed.status]
                ELSE [http EXCEPT !.pc = "update", !.calls = Append(@, "retrieve"),
                                  !.type = type, !.typed = typed.value]
    /\ UNCHANGED <<pureVars, scanVars, clientVars, camVars>>

updatedPropertiesWithAttendance(name, typed) ==
    <<[name |-> name, value |-> typed],
      [name |-> <<"2025-WD">>, value |-> JsBoolean(TRUE)]>>

\* properties: { [propertyName]: update }, the body of the update call.
updatedProperties(name, typed) ==
    <<[name |-> name, value |-> typed]>>

\* The property route: the page update and the answer.
RouteUpdate ==
    /\ http.pc = "update"
    /\ \E ok \in BOOLEAN, status \in RouteUpstreamErrors :
            http' = [http EXCEPT
                        !.pc = "done",
                        !.calls = Append(@, "update"),
                        !.written = updatedProperties(http.name, http.typed),
                        !.failed = ~ok,
                        !.status = IF ok THEN 200
                                   ELSE routeFailureStatus(http.host, status)]
    /\ UNCHANGED <<pureVars, scanVars, clientVars, camVars>>

RouteNext ==
    \/ RouteReceive
    \/ RouteSearch
    \/ RouteRetrieve
    \/ RouteUpdate

(***************************************************************************)
(* Client: starting and stopping the scanner                               *)
(***************************************************************************)

\* Calls of startScanner followed in one page.
MaxStarts == 6

Calls == 1..MaxStarts

\* The page as it loads: nothing runs, only the start button is enabled, the
\* permission query of the auto-start is awaited, no handler is registered.
CamIdle ==
    [isRunning |-> FALSE, startDisabled |-> FALSE, stopDisabled |-> TRUE,
     auto |-> "query", calls |-> [i \in Calls |-> "idle"],
     handlers |-> {}, detectedHandler |-> 0, inits |-> {}]

\* The calls of startScanner that await Quagga.init.
Initialising(c) == {i \in Calls : c.calls[i] = "init"}

\* A call of startScanner not made yet.
FreshCalls == {i \in Calls : cam.calls[i] = "idle"}

\* startScanner up to its await: it returns when the scanner runs, and
\* otherwise disables the start button and calls Quagga.init.
startScanner(c, i) ==
    IF c.isRunning
    THEN [c EXCEPT !.calls[i] = "done"]
    ELSE [c EXCEPT !.startDisabled = TRUE, !.calls[i] = "init"]

\* stopScanner: it returns when the scanner does not run, and otherwise
\* removes the handler it holds, forgets it and swaps the buttons.
stopScanner(c) ==
    IF ~c.isRunning
    THEN c
    ELSE [c EXCEPT !.handlers = c.handlers \ {c.detectedHandler},
                   !.detectedHandler = 0,
                   !.isRunning = FALSE,
                   !.inits = {},
                   !.stopDisabled = TRUE,
                   !.startDisabled = FALSE]

\* The start button is clicked.
ClickStart ==
    /\ ~cam.startDisabled
    /\ \E i \in FreshCalls :
          /\ \A j \in FreshCalls : i <= j
          /\ cam' = startScanner(cam, i)
    /\ UNCHANGED <<pureVars, scanVars, clientVars, routeVars>>

\* The permission query of the auto-start settles; startScanner is called
\* when the permission is granted.
AutoStart ==
    /\ cam.auto = "query"
    /\ \E granted \in BOOLEAN :
          IF granted /\ FreshCalls # {}
          THEN \E i \in FreshCalls :
                  /\ \A j \in FreshCalls : i <= j
                  /\ cam' = [startScanner(cam, i) EXCEPT !.auto = "done"]
          ELSE cam' = [cam EXCEPT !.auto = "done"]
    /\ UNCHANGED <<pureVars, scanVars, clientVars, routeVars>>

\* Quagga.init calls back without an error: the call registers its handler,
\* starts the decoder and enables the stop button.
InitResolved ==
    /\ \E i \in Initialising(cam) :
          cam' = [cam EXCEPT !.calls[i] = "done",
                             !.detectedHandler = i,
                             !.handlers = cam.handlers \cup {i},
                             !.inits = cam.inits \cup {i},
                             !.isRunning = TRUE,
                             !.stopDisabled = FALSE]
    /\ UNCHANGED <<pureVars, scanVars, clientVars, routeVars>>

\* Quagga.init calls back with an error: the start button is enabled again.
InitRejected ==
    /\ \E i \in Initialising(cam) :
          cam' = [cam EXCEPT !.calls[i] = "done", !.startDisabled = FALSE]
    /\ UNCHANGED <<pureVars, scanVars, clientVars, routeVars>>

\* The stop button is clicked.
ClickStop ==
    /\ ~cam.stopDisabled
    /\ cam' = stopScanner(cam)
    /\ UNCHANGED <<pureVars, scanVars, clientVars, routeVars>>

\* The page is hidden.
PageHide ==
    /\ cam' = stopScanner(cam)
    /\ UNCHANGED <<pureVars, scanVars, clientVars, routeVars>>

CamNext ==
    \/ ClickStart
    \/ AutoStart
    \/ InitResolved
    \/ InitRejected
    \/ ClickStop
    \/ PageHide

(***************************************************************************)
(* Specifications                                                          *)
(***************************************************************************)

\* No helper is under test.
PureIdle ==
    <<"none", <<>>, FALSE, <<>>>>

\* No scan request is served: the host, the store and the requests.
ScanIdle ==
    <<"express", [p \in Pages |-> FALSE], [r \in Req |-> NewRequest]>>

\* The client as the page loads.
ClientIdle ==
    [now |-> 0, lastValue |-> JsNull, lastSeenAt |-> 0, syncInFlight |-> FALSE,
     lastSyncedValue |-> JsNull, requests |-> <<>>, dialog |-> "", events |-> <<>>]

\* A helper and its arguments are drawn; nothing else runs.
PureInit ==
    /\ pureDone = FALSE
    /\ pureOut = <<>>
    /\ \/ pureOp = "normalize" /\ pureIn \in NormalizeInputs
       \/ pureOp = "exactMatch" /\ pureIn \in ExactMatchInputs
       \/ pureOp = "getPropertyByCandidates" /\ pureIn \in CandidateInputs
       \/ pureOp = "propertyUpdate" /\ pureIn \in CodecInputs
       \/ pureOp = "getCandidatePropertyText" /\ pureIn \in CandidateTextInputs
       \/ pureOp = "extractFields" /\ pureIn \in ExtractInputs
       \/ pureOp = "scanCapped" /\ pureIn \in ScanCappedInputs
    /\ host = ScanIdle[1]
    /\ checked = ScanIdle[2]
    /\ req = ScanIdle[3]
    /\ now = ClientIdle.now
    /\ lastValue = ClientIdle.lastValue
    /\ lastSeenAt = ClientIdle.lastSeenAt
    /\ syncInFlight = ClientIdle.syncInFlight
    /\ lastSyncedValue = ClientIdle.lastSyncedValue
    /\ requests = ClientIdle.requests
    /\ dialog = ClientIdle.dialog
    /\ events = ClientIdle.events
    /\ http = RouteIdle
    /\ cam = CamIdle

\* One host is deployed against a store in any state; no request has arrived.
ScanInit ==
    /\ pureOp = PureIdle[1]
    /\ pureIn = PureIdle[2]
    /\ pureDone = PureIdle[3]
    /\ pureOut = PureIdle[4]
    /\ host \in Hosts
    /\ checked \in [Pages -> BOOLEAN]
    /\ req = [r \in Req |-> NewRequest]
    /\ now = ClientIdle.now
    /\ lastValue = ClientIdle.lastValue
    /\ lastSeenAt = ClientIdle.lastSeenAt
    /\ syncInFlight = ClientIdle.syncInFlight
    /\ lastSyncedValue = ClientIdle.lastSyncedValue
    /\ requests = ClientIdle.requests
    /\ dialog = ClientIdle.dialog
    /\ events = ClientIdle.events
    /\ http = RouteIdle
    /\ cam = CamIdle

\* The page has loaded: nothing detected, nothing synced.
ClientInit ==
    /\ pureOp = PureIdle[1]
    /\ pureIn = PureIdle[2]
    /\ pureDone = PureIdle[3]
    /\ pureOut = PureIdle[4]
    /\ host = ScanIdle[1]
    /\ checked = ScanIdle[2]
    /\ req = ScanIdle[3]
    /\ now = 0
    /\ lastValue = JsNull
    /\ lastSeenAt = 0
    /\ syncInFlight = FALSE
    /\ lastSyncedValue = JsNull
    /\ requests = <<>>
    /\ dialog = ""
    /\ events = <<>>
    /\ http = RouteIdle
    /\ cam = CamIdle

PureNext ==
    \/ ApplyNormalize
    \/ ApplyExactMatch
    \/ ApplyGetPropertyByCandidates
    \/ ApplyPropertyUpdate
    \/ ApplyGetCandidatePropertyText
    \/ ApplyExtractFields
    \/ ApplyScanCapped

\* The helpers, each applied once to arguments drawn by the initial state.
SpecPure == PureInit /\ [][PureNext]_vars

\* The scan route of one host, serving two requests against one store.
SpecScan == ScanInit /\ [][ScanNext]_vars

\* One browser client: detections, clears and answers to its scan requests.
SpecClient == ClientInit /\ [][ClientNext]_vars

\* The same, every scan request of the client settling: fetch resolves with
\* a response or rejects with a network error.
SpecClientLive ==
    ClientInit /\ [][ClientNext]_vars /\ WF_vars(SyncResolved \/ SyncRejected)

\* One deployment routing one request.
RouteInit ==
    /\ pureOp = PureIdle[1]
    /\ pureIn = PureIdle[2]
    /\ pureDone = PureIdle[3]
    /\ pureOut = PureIdle[4]
    /\ host = ScanIdle[1]
    /\ checked = ScanIdle[2]
    /\ req = ScanIdle[3]
    /\ now = ClientIdle.now
    /\ lastValue = ClientIdle.lastValue
    /\ lastSeenAt = ClientIdle.lastSeenAt
    /\ syncInFlight = ClientIdle.syncInFlight
    /\ lastSyncedValue = ClientIdle.lastSyncedValue
    /\ requests = ClientIdle.requests
    /\ dialog = ClientIdle.dialog
    /\ events = ClientIdle.events
    /\ http \in RouteStarts
    /\ cam = CamIdle

SpecRoute == RouteInit /\ [][RouteNext]_vars

\* The page loads; no scan request, nothing scanned.
CamInit ==
    /\ pureOp = PureIdle[1]
    /\ pureIn = PureIdle[2]
    /\ pureDone = PureIdle[3]
    /\ pureOut = PureIdle[4]
    /\ host = ScanIdle[1]
    /\ checked = ScanIdle[2]
    /\ req = ScanIdle[3]
    /\ now = ClientIdle.now
    /\ lastValue = ClientIdle.lastValue
    /\ lastSeenAt = ClientIdle.lastSeenAt
    /\ syncInFlight = ClientIdle.syncInFlight
    /\ lastSyncedValue = ClientIdle.lastSyncedValue
    /\ requests = ClientIdle.requests
    /\ dialog = ClientIdle.dialog
    /\ events = ClientIdle.events
    /\ http = RouteIdle
    /\ cam = CamIdle

SpecCam == CamInit /\ [][CamNext]_vars

\* A client and a host side by side.
Init ==
    /\ pureOp = PureIdle[1]
    /\ pureIn = PureIdle[2]
    /\ pureDone = PureIdle[3]
    /\ pureOut = PureIdle[4]
    /\ host \in Hosts
    /\ checked \in [Pages -> BOOLEAN]
    /\ req = [r \in Req |-> NewRequest]
    /\ now = 0
    /\ lastValue = JsNull
    /\ lastSeenAt = 0
    /\ syncInFlight = FALSE
    /\ lastSyncedValue = JsNull
    /\ requests = <<>>
    /\ dialog = ""
    /\ events = <<>>
    /\ http = RouteIdle
    /\ cam = CamIdle

Next ==
    \/ ScanNext
    \/ ClientNext

Spec == Init /\ [][Next]_vars

(***************************************************************************)
(* Claims                                                                  *)
(***************************************************************************)

\* The string with every white-space character left out.
WithoutWhiteSpace(s) == SelectSeq(s, LAMBDA c : c \notin WhiteSpace)

\* C7: normalize removes leading, trailing and internal white space and
\* changes nothing else, so ' AB  12 ' and 'AB12' both normalize to 'AB12';
\* titles match exactly when they are equal once white space is left out,
\* so two strings that differ in letter case never match.
NormalizeStripsOnlyWhiteSpace ==
    /\ (pureDone /\ pureOp = "normalize") =>
        /\ pureOut = WithoutWhiteSpace(pureIn[2])
        /\ pureIn[2] \in {SpacedAB12, PlainAB12} => pureOut = PlainAB12
    /\ (pureDone /\ pureOp = "exactMatch") =>
        /\ pureOut = (WithoutWhiteSpace(pureIn[2]) = WithoutWhiteSpace(pureIn[3]))
        /\ (/\ toLowerCase(pureIn[2]) = toLowerCase(pureIn[3])
            /\ WithoutWhiteSpace(pureIn[2]) # WithoutWhiteSpace(pureIn[3]))
           => pureOut = FALSE

\* ' AB  12 ' has been normalized to 'AB12'.
NormalizeWitness ==
    /\ pureDone
    /\ pureOp = "normalize"
    /\ pureIn[2] = SpacedAB12
    /\ pureOut = PlainAB12

\* C8: candidate-key matching is insensitive to letter case, white space,
\* hyphen and underscore: a property whose key spells "first name" in any
\* case, with any such separator and padding (among them 'First Name',
\* 'first_name' and 'FIRSTNAME'), is the one the first-name candidates
\* resolve to, and a key that is no such spelling resolves to nothing.
FirstNameSpellingsResolve ==
    (pureDone /\ pureOp = "getPropertyByCandidates"
        /\ pureIn[2] = firstNameCandidates) =>
        LET properties == pureIn[1]
            spelled == {i \in 1..Len(properties) :
                            properties[i].key \in FirstNameSpellings}
        IN  /\ spelled # {} => \E i \in spelled : pureOut = properties[i].prop
            /\ spelled = {} => pureOut = Null
            /\ \A i \in 1..Len(properties) :
                    properties[i].key \in
                        {KeyFirstSpaceName, KeyFirstUnderscoreName, KeyFIRSTNAME}
                    => pureOut = PropA

\* 'FIRSTNAME', listed after another property, resolved to its property.
FirstNameSpellingsWitness ==
    /\ pureDone
    /\ pureOp = "getPropertyByCandidates"
    /\ pureIn[2] = firstNameCandidates
    /\ Len(pureIn[1]) = 2
    /\ pureIn[1][2].key = KeyFIRSTNAME
    /\ pureOut = PropA

\* C9: number coercion fails explicitly for every string that does not parse
\* as a number (such as 'abc'), never yielding zero or any other payload, and
\* yields the numeric payload n for a string that parses as n ('42' yields
\* 42). Parsing is JavaScript's own: Number(s) is not NaN.
NumberCoercionFailsExplicitly ==
    (pureDone /\ pureOp = "propertyUpdate" /\ pureIn[2] = "number"
        /\ pureIn[3].t = "string") =>
        IF StringToNumber(pureIn[3].s) = JsNaN
        THEN pureOut.ok = FALSE
        ELSE pureOut = Payload("number", StringToNumber(pureIn[3].s))

\* C10: checkbox coercion returns a boolean input itself, and for a string
\* returns true exactly when it is 'true', '1' or 'yes' in any letter case.
CheckboxCoercion ==
    (pureDone /\ pureOp = "propertyUpdate" /\ pureIn[2] = "checkbox") =>
        /\ pureIn[3].t = "boolean" => pureOut = Payload("checkbox", pureIn[3])
        /\ pureIn[3].t = "string" =>
                pureOut = Payload("checkbox",
                    JsBoolean(toLowerCase(pureIn[3].s) \in {StrTrue, StrOne, StrYes}))

\* The search of request r was answered.
Searched(r) == Len(req[r].calls) >= 1 /\ req[r].failed # "search"

\* The pages of r's search answer whose title is the scanned id, white space
\* aside.
TitleMatches(r) ==
    {m.id : m \in {req[r].results[i] : i \in 1..Len(req[r].results)}} \cap
    {p \in Pages : WithoutWhiteSpace(PageTitle(p)) = WithoutWhiteSpace(req[r].scannedId)}

UpdateCalls(r) == {i \in 1..Len(req[r].calls) : req[r].calls[i].op = "update"}

\* C1: a scan whose search answer holds no page titled like the id, white
\* space aside, is answered 404 and issues no update call.
NoMatchAnswers404 ==
    \A r \in Req :
        (Searched(r) /\ TitleMatches(r) = {}) =>
            /\ req[r].pc = "done"
            /\ req[r].response.status = 404
            /\ UpdateCalls(r) = {}

\* 'AB' was scanned, the search answered with the page titled 'ab', and the
\* scan was answered 404.
NoMatchWitness ==
    \E r \in Req :
        /\ req[r].pc = "done"
        /\ req[r].scannedId = <<"A", "B">>
        /\ \E i \in 1..Len(req[r].results) : req[r].results[i].title = <<"a", "b">>
        /\ req[r].response.status = 404

\* C2: a scan whose search answer holds two or more pages titled like the id
\* is answered 409 with the id, title and url of every one of them, and
\* issues no update call.
ManyMatchesAnswer409 ==
    \A r \in Req :
        (Searched(r) /\ Cardinality(TitleMatches(r)) >= 2) =>
            LET listed == req[r].response.matches
            IN  /\ req[r].pc = "done"
                /\ req[r].response.status = 409
                /\ {listed[i].id : i \in 1..Len(listed)} = TitleMatches(r)
                /\ Len(listed) = Cardinality(TitleMatches(r))
                /\ \A i \in 1..Len(listed) :
                        /\ listed[i].url = PageUrl(listed[i].id)
                        /\ listed[i] \in {req[r].results[j] : j \in 1..Len(req[r].results)}
                        /\ trim(listed[i].title) = trim(PageTitle(listed[i].id))
                /\ UpdateCalls(r) = {}

\* ' 12 ' was scanned, pages '12' and ' 1 2' both came back, and the scan
\* was answered 409 listing the two.
ManyMatchesWitness ==
    \E r \in Req :
        /\ req[r].pc = "done"
        /\ req[r].id = JsString(<<" ", "1", "2", " ">>)
        /\ Len(req[r].results) = NumPages
        /\ req[r].response.status = 409
        /\ Len(req[r].response.matches) = 2

\* The update call of request r was applied by the store.
Updated(r) == UpdateCalls(r) # {} /\ req[r].failed # "update"

\* C3: the scan is idempotent. Once a scan with exactly one match has
\* updated the page, '2025-WD' is true, also when it was true already (a
\* second invocation), and such a scan, its upstream calls succeeding, is
\* answered 200 like the first.
ScanIsIdempotent ==
    \A r \in Req :
        (Searched(r) /\ Cardinality(TitleMatches(r)) = 1) =>
            /\ Updated(r) => \A p \in TitleMatches(r) : checked[p]
            /\ (req[r].pc = "done" /\ req[r].failed = "") =>
                    req[r].response.status = 200

\* Both invocations scanned the same page and were answered 200; the first
\* found the checkbox false, the second found it true.
ScanIsIdempotentWitness ==
    /\ \A r \in Req : req[r].pc = "done" /\ req[r].response.status = 200
    /\ req[1].page.id = req[2].page.id
    /\ \E r \in Req : req[r].before = FALSE
    /\ \E r \in Req : req[r].before = TRUE

\* C4: a scan with exactly one match whose upstream calls succeed is
\* answered 200 with ok = true, the trimmed request id, the matched page's id
\* and the matched page's title, and by then the page's '2025-WD' is true
\* whatever it was before.
OneMatchAnswers200 ==
    \A r \in Req :
        (/\ req[r].pc = "done"
         /\ req[r].failed = ""
         /\ Searched(r)
         /\ Cardinality(TitleMatches(r)) = 1) =>
            LET p == CHOOSE q \in TitleMatches(r) : TRUE
                found == CHOOSE i \in 1..Len(req[r].results) : req[r].results[i].id = p
            IN  /\ req[r].response.status = 200
                /\ req[r].response.ok = TRUE
                /\ req[r].response.scannedId = trim(req[r].id.s)
                /\ req[r].response.pageId = p
                /\ req[r].response.title = req[r].results[found].title
                /\ trim(req[r].response.title) = trim(PageTitle(p))
                /\ checked[p] = TRUE

\* ' 12 ' was scanned, the page titled ' 1 2' alone matched, its checkbox
\* was false before the update, and the scan was answered 200.
OneMatchWitness ==
    \E r \in Req :
        /\ req[r].pc = "done"
        /\ req[r].id = JsString(<<" ", "1", "2", " ">>)
        /\ req[r].page.id = 2
        /\ req[r].before = FALSE
        /\ req[r].response.status = 200
        /\ checked[2] = TRUE

\* The positions of the detections in the history.
DetectionEvents == {i \in 1..Len(events) : events[i].kind = "detect"}

\* Pairs of detections of the same decoded value.
SameValuePairs ==
    {ij \in DetectionEvents \X DetectionEvents :
        ij[1] < ij[2] /\ events[ij[1]].code = events[ij[2]].code}

\* The scan requests the two detections of a pair sent.
SyncCalls(ij) == {k \in {ij[1], ij[2]} : events[k].sync}

\* A clear lies between the two detections of the pair.
ClearedBetween(ij) ==
    \E k \in ij[1]..ij[2] : events[k].kind = "clear"

\* A detection of another value lies between the two detections of the pair.
OtherValueBetween(ij) ==
    \E k \in ij[1]..ij[2] :
        events[k].kind = "detect" /\ events[k].code # events[ij[1]].code

\* C5 as stated: two detections of the same value less than 1.2 seconds
\* apart send exactly one scan request.
CloseDetectionsSyncOnce ==
    \A ij \in SameValuePairs :
        events[ij[2]].at - events[ij[1]].at < DebounceMs =>
            Cardinality(SyncCalls(ij)) = 1

\* C5: of two detections of the same value less than 1.2 seconds apart with
\* no clear and no detection of another value between them, at most one
\* sends a scan request, and the second sends none when the first passed the
\* duplicate test.
CloseDetectionsSyncAtMostOnce ==
    \A ij \in SameValuePairs :
        (/\ events[ij[2]].at - events[ij[1]].at < DebounceMs
         /\ ~ClearedBetween(ij)
         /\ ~OtherValueBetween(ij)) =>
            /\ Cardinality(SyncCalls(ij)) <= 1
            /\ events[ij[1]].accepted =>
                    ~events[ij[2]].accepted /\ ~events[ij[2]].sync

\* Two detections of '12' 400 ms apart, the first sent the scan request and
\* the second was dropped as a duplicate.
CloseDetectionsWitness ==
    \E ij \in SameValuePairs :
        /\ events[ij[1]].code = <<"1", "2">>
        /\ events[ij[2]].at - events[ij[1]].at = 400
        /\ ~ClearedBetween(ij)
        /\ events[ij[1]].sync
        /\ ~events[ij[2]].accepted

\* C6 as stated: two detections of the same value more than 1.2 seconds
\* apart send two scan requests.
FarDetectionsSyncTwice ==
    \A ij \in SameValuePairs :
        events[ij[2]].at - events[ij[1]].at > DebounceMs =>
            Cardinality(SyncCalls(ij)) = 2

\* C6: of two successive detections of the same value more than 1.2 seconds
\* apart the second passes the duplicate test, but the two send two scan
\* requests only when a clear lies between them.
FarDetectionsSyncTwiceOnlyAfterClear ==
    \A ij \in SameValuePairs :
        (/\ events[ij[2]].at - events[ij[1]].at > DebounceMs
         /\ DetectionEvents \cap (ij[1]..ij[2]) = {ij[1], ij[2]}) =>
            /\ events[ij[2]].accepted
            /\ Cardinality(SyncCalls(ij)) = 2 => ClearedBetween(ij)

\* Two successive detections of '12' 1600 ms apart with no clear between
\* them: the second passed the duplicate test and only the first sent a scan
\* request.
FarDetectionsWitness ==
    \E ij \in SameValuePairs :
        /\ events[ij[1]].code = <<"1", "2">>
        /\ events[ij[2]].at - events[ij[1]].at = 1600
        /\ ij[2] = ij[1] + 1
        /\ events[ij[2]].accepted
        /\ SyncCalls(ij) = {ij[1]}

\* A request has been received and handled up to its first upstream call.
Received == http.pc # "idle"

\* The property types the property route writes.
WritableTypes ==
    {"title", "rich_text", "number", "checkbox", "select", "status", "date"}

\* The property route found the property and its value cannot be written:
\* the type is not writable, or the type is number and the value is a string
\* that is no number.
Unwritable ==
    /\ http.type # ""
    /\ \/ http.type \notin WritableTypes
       \/ /\ http.type = "number"
          /\ http.request.value.t = "string"
          /\ StringToNumber(http.request.value.s) = JsNaN

\* C11: a property request for a property of a type outside the writable set,
\* or with a non-numeric value for a number property, is answered 400 and no
\* update call is issued.
UnwritableAnswers400 ==
    Unwritable =>
        /\ http.pc = "done"
        /\ http.status = 400
        /\ \A i \in 1..Len(http.calls) : http.calls[i] # "update"

\* The paths some route of the host is registered for.
KnownPaths(h) == {mp[2] : mp \in KnownRoutes(h)}

\* The request passed the token, pre-flight and origin tests of its host.
PassedToRouting ==
    /\ Received
    /\ http.token
    /\ http.request.method # "OPTIONS"
    /\ ~originRejected(http.allowed, http.request.origin)

\* C12: a request whose path matches no route is answered 404, and a request
\* whose path matches a route that does not accept its method is answered
\* 405.
RouterAnswers404And405 ==
    PassedToRouting =>
        /\ (http.host \in {"worker", "worker.ts"}
                /\ http.request.path \notin KnownPaths(http.host)) =>
                http.status = 404
        /\ (http.host \in {"worker", "worker.ts"}
                /\ http.request.path \in KnownPaths(http.host)
                /\ <<http.request.method, http.request.path>> \notin KnownRoutes(http.host)) =>
                http.status = 405
        /\ (http.host = "function" /\ http.request.method # "POST") =>
                http.status = 405
        /\ (http.host = "netlify" /\ http.request.method # "PATCH") =>
                http.status = 405

\* C13: every OPTIONS request is answered 204, whatever its path, its origin
\* and the configuration of the host.
PreflightAnswers204 ==
    (Received /\ http.request.method = "OPTIONS") => http.status = 204

\* The request comes from an origin other than the configured one.
FromOtherOrigin ==
    /\ Received
    /\ http.allowed # NoOrigin
    /\ http.request.method # "OPTIONS"
    /\ http.request.origin \notin {NoOrigin, http.allowed}

\* C14 as stated: with an allowed origin configured, every request that is
\* no pre-flight and comes from another origin is answered 403 and issues no
\* upstream call.
OtherOriginAnswers403 ==
    FromOtherOrigin =>
        http.pc = "done" /\ http.status = 403 /\ http.calls = <<>>

\* C14: with an allowed origin configured, a request that is no pre-flight
\* and comes from an origin that is neither the configured one nor a
\* localhost one is rejected before any upstream call, with 403 when the
\* token is set and 500 otherwise; a request from a localhost origin, from
\* the configured origin or without an origin is never answered 403.
ForeignOriginAnswers403 ==
    /\ (FromOtherOrigin /\ http.request.origin \notin LocalOrigins) =>
            /\ http.pc = "done"
            /\ http.status = IF http.token THEN 403 ELSE 500
            /\ http.calls = <<>>
    /\ (Received /\ ~(FromOtherOrigin /\ http.request.origin \notin LocalOrigins)) =>
            http.status # 403

\* A property update with valid fields from another site was answered 403
\* by a worker whose token and allowed origin are set.
ForeignOriginWitness ==
    /\ http.pc = "done"
    /\ http.token
    /\ http.allowed = ConfiguredOrigin
    /\ http.request.origin = "https://other.example"
    /\ http.request.method = "PATCH"
    /\ http.request.path = PathProperty
    /\ http.request.propertyName = JsString(<<"number">>)
    /\ http.request.value = JsNumber(42)
    /\ http.status = 403
    /\ http.calls = <<>>

\* The id of request r is missing, no string, or empty once trimmed.
BlankId(r) ==
    req[r].id.t # "string" \/ trim(req[r].id.s) = <<>>

\* C15: the scan id is trimmed before use, and a scan request whose id is
\* missing, no string, or empty after trimming is answered 400 with no
\* upstream call issued.
BlankIdAnswers400 ==
    \A r \in Req :
        req[r].pc # "new" =>
            /\ BlankId(r) =>
                    /\ req[r].pc = "done"
                    /\ req[r].response.status = 400
                    /\ req[r].calls = <<>>
            /\ ~BlankId(r) => req[r].scannedId = trim(req[r].id.s)

\* The place of an upstream call in the scan flow.
Rank(op) ==
    CASE op = "search" -> 1
      [] op = "update" -> 2
      [] op = "retrieve" -> 3
      [] op = "property" -> 4

\* The upstream calls of request r came in the order search, update, page
\* retrieve, per-property fetches.
CallsInOrder(r) ==
    \A i, j \in 1..Len(req[r].calls) :
        i < j =>
            /\ Rank(req[r].calls[i].op) <= Rank(req[r].calls[j].op)
            /\ Rank(req[r].calls[i].op) = Rank(req[r].calls[j].op) =>
                    req[r].calls[i].op = "property"

\* C16 as stated: the upstream calls of a scan come in the order search,
\* update, page retrieve, per-property fetches, and the properties the
\* answer's fields are extracted from are those of the retrieved page, never
\* those of the update response.
FieldsFromRetrievedPage ==
    \A r \in Req :
        /\ CallsInOrder(r)
        /\ req[r].props # "" => req[r].props = "retrieve"

\* C16: the upstream calls of a scan come in the order search, update, page
\* retrieve, per-property fetches; the properties the answer's fields are
\* extracted from are those of the retrieved page whenever the retrieve
\* answer carries properties, and those of the update response only when it
\* carries none.
FieldsFromRetrievedPageWhenPresent ==
    \A r \in Req :
        /\ CallsInOrder(r)
        /\ req[r].props # "" =>
                /\ req[r].calls[3].op = "retrieve"
                /\ req[r].props = IF req[r].pageAfterHas THEN "retrieve" ELSE "update"

\* A scan was answered 200 after a search, an update, a retrieve that
\* carried properties and one per-property fetch, its fields taken from the
\* retrieved page.
FieldsFromRetrievedPageWitness ==
    \E r \in Req :
        /\ req[r].pc = "done"
        /\ req[r].response.status = 200
        /\ [i \in 1..Len(req[r].calls) |-> req[r].calls[i].op]
                = <<"search", "update", "retrieve", "property">>
        /\ req[r].pageAfterHas
        /\ req[r].props = "retrieve"

\* No upstream call of request r was issued twice.
NoCallRepeated(r) ==
    \A i, j \in 1..Len(req[r].calls) : i < j => req[r].calls[i] # req[r].calls[j]

\* Request r ended with an error answer right after its failed call.
EndedAtFailure(r) ==
    /\ req[r].pc = "done"
    /\ req[r].response.status \in {500} \cup UpstreamErrors
    /\ ~req[r].response.ok

\* C20 as stated: no upstream call is issued twice within a request, and
\* once any upstream call has failed the request ends with an error answer
\* and issues no further upstream call.
AnyFailureEndsRequest ==
    \A r \in Req :
        /\ NoCallRepeated(r)
        /\ (req[r].failed # "" \/ req[r].swallowed # <<>>) =>
                /\ EndedAtFailure(r)
                /\ req[r].failed # "" =>
                        req[r].calls[Len(req[r].calls)].op = req[r].failed
                /\ req[r].swallowed # <<>> =>
                        req[r].calls[Len(req[r].calls)].prop = req[r].swallowed[1]

\* C20: no upstream call is issued twice within a request, and once the
\* search, the update or the page retrieve has failed the request ends with
\* an error answer, the failed call being its last; a failed per-property
\* fetch is not repeated either, but it ends nothing: the request is
\* answered 200.
PageCallFailureEndsRequest ==
    \A r \in Req :
        /\ NoCallRepeated(r)
        /\ req[r].failed # "" =>
                /\ EndedAtFailure(r)
                /\ req[r].calls[Len(req[r].calls)].op = req[r].failed
                /\ req[r].swallowed = <<>>
        /\ req[r].swallowed # <<>> =>
                /\ req[r].failed = ""
                /\ req[r].response.status = 200
                /\ \A i \in 1..Len(req[r].swallowed) :
                        Cardinality({j \in 1..Len(req[r].calls) :
                            /\ req[r].calls[j].op = "property"
                            /\ req[r].calls[j].prop = req[r].swallowed[i]}) = 1

\* The first scan ended with an error after its update call failed, the
\* second was answered 200 although a per-property fetch of it failed.
PageCallFailureWitness ==
    /\ req[1].pc = "done"
    /\ req[1].failed = "update"
    /\ Len(req[1].calls) = 2
    /\ req[1].response.status \in {500} \cup UpstreamErrors
    /\ req[2].pc = "done"
    /\ req[2].swallowed # <<>>
    /\ req[2].response.status = 200

\* The properties whose key the c-th candidate of the list stands for.
MatchedBy(properties, candidates, c) ==
    {i \in 1..Len(properties) :
        normalizeKey(properties[i].key) = normalizeKey(candidates[c])}

\* C17: when several properties of a page match different spellings of a
\* candidate list, the property returned is the one matched by the earliest
\* candidate of the list.
CandidateOrderIsPriority ==
    (pureDone /\ pureOp = "getPropertyByCandidates") =>
        LET properties == pureIn[1]
            candidates == pureIn[2]
            matching == {c \in 1..Len(candidates) :
                            MatchedBy(properties, candidates, c) # {}}
        IN  IF matching = {} THEN pureOut = Null
            ELSE LET first == CHOOSE c \in matching : \A d \in matching : c <= d
                 IN  \E i \in MatchedBy(properties, candidates, first) :
                        pureOut = properties[i].prop

\* C18: the extraction of a candidate's text always yields a string. When
\* the matched property exists and its inline text is empty, exactly one
\* per-property fetch is issued, for that property, and the text is that of
\* its answer; when no property matches no fetch is issued and the text is
\* empty; when the fetch fails or answers nothing the text is empty; when
\* the inline text is not empty it is the text and no fetch is issued.
CandidateTextNeverThrows ==
    (pureDone /\ pureOp = "getCandidatePropertyText") =>
        LET prop == getPropertyByCandidates(pureIn[1], pureIn[2])
            inline == IF prop.type \in PlainTextTypes THEN trim(prop.text) ELSE <<>>
            fetches == IF pureOut.fetched THEN <<pureOut.prop>> ELSE <<>>
        IN  /\ DOMAIN pureOut.text = 1..Len(pureOut.text)
            /\ prop = Null => fetches = <<>> /\ pureOut.text = <<>>
            /\ (prop # Null /\ inline # <<>>) =>
                    fetches = <<>> /\ pureOut.text = inline
            /\ (prop # Null /\ inline = <<>>) =>
                    /\ fetches = <<prop.id>>
                    /\ pureOut.text = IF pureIn[3] THEN <<>>
                                      ELSE propertyItemsPlainText(prop.items)
                    /\ (\A i \in 1..Len(prop.items) : trim(prop.items[i]) = <<>>) =>
                            pureOut.text = <<>>

\* The first-name property, a rollup with no inline text, was fetched and
\* its answer 'B ', '', 'C' gave the text 'B C'.
CandidateTextWitness ==
    /\ pureDone
    /\ pureOp = "getCandidatePropertyText"
    /\ pureIn[1][1].key = KeyFirstSpaceName
    /\ pureIn[1][1].prop.type = "rollup"
    /\ pureIn[1][1].prop.text = <<>>
    /\ pureIn[2] = firstNameCandidates
    /\ ~pureIn[3]
    /\ pureOut.fetched
    /\ pureOut.text = <<"B", " ", "C">>

\* What the extraction answers for the names of the page. `collapsed` tells
\* whether the white-space runs of the rest of a full name are collapsed.
ExtractsNames(collapsed) ==
    LET properties == pureIn[1]
        fails == pureIn[2]
        first == getCandidatePropertyText(properties, firstNameCandidates,
                                          "first" \in fails).text
        last == getCandidatePropertyText(properties, lastNameCandidates,
                                         "last" \in fails).text
        full == getCandidatePropertyText(properties, fullNameCandidates,
                                         "full" \in fails).text
        k == Len(pureOut.firstName)
        rest == trim(SubSeq(full, k + 1, Len(full)))
    IN  /\ (first # <<>> \/ last # <<>>) =>
                /\ pureOut.firstName = first
                /\ pureOut.lastName = last
                /\ pureOut.fullName = trim(joinNonEmpty(<<first, last>>, <<" ">>))
                /\ \A i \in 1..Len(pureOut.fetches) : pureOut.fetches[i].prop # "full"
        /\ (first = <<>> /\ last = <<>>) =>
                /\ pureOut.fullName = full
                /\ full = <<>> => pureOut.firstName = <<>> /\ pureOut.lastName = <<>>
                /\ full # <<>> =>
                        /\ k \in 1..Len(full)
                        /\ pureOut.firstName = SubSeq(full, 1, k)
                        /\ \A i \in 1..k : full[i] \notin WhiteSpace
                        /\ k < Len(full) => full[k + 1] \in WhiteSpace
                        /\ pureOut.lastName =
                                IF collapsed THEN replaceRuns(rest, WhiteSpace, <<" ">>)
                                ELSE rest

\* C19 as stated: first name and last name are extracted independently, the
\* full-name candidates are consulted only when both are empty, and then the
\* full name is split on its first white-space run, the first token becoming
\* firstName and the remainder lastName.
FullNameSplitOnFirstRun ==
    (pureDone /\ pureOp = "extractFields") => ExtractsNames(FALSE)

\* C19: first name and last name are extracted independently, the full-name
\* candidates are consulted only when both are empty, and then the full name
\* is split on its first white-space run, the first token becoming firstName
\* and the remainder, its white-space runs collapsed to one space each,
\* lastName.
FullNameSplitOnFirstRunCollapsed ==
    (pureDone /\ pureOp = "extractFields") => ExtractsNames(TRUE)

\* A page with the full name 'Bo  Cy<tab> D' alone answered firstName 'Bo'
\* and lastName 'Cy D'.
FullNameSplitWitness ==
    /\ pureDone
    /\ pureOp = "extractFields"
    /\ Len(pureIn[1]) = 1
    /\ pureIn[1][1].key = KeyFullName
    /\ pureIn[1][1].prop.text = <<"B", "o", " ", " ", "C", "y", "\t", " ", "D">>
    /\ pureOut.firstName = <<"B", "o">>
    /\ pureOut.lastName = <<"C", "y", " ", "D">>

\* The results of r's search whose title is the scanned id once both are
\* normalized.
MatchingResults(r) ==
    {i \in 1..Len(req[r].results) :
        WithoutWhiteSpace(req[r].results[i].title) = WithoutWhiteSpace(req[r].scannedId)}

\* The three outcomes of a search.
NoMatch(r) ==
    req[r].pc = "done" /\ req[r].response.status = 404 /\ UpdateCalls(r) = {}

ManyMatches(r) ==
    req[r].pc = "done" /\ req[r].response.status = 409 /\ UpdateCalls(r) = {}

OneMatch(r) ==
    req[r].pc = "update" \/ UpdateCalls(r) # {}

\* C25: a scan with a valid id whose search was answered is in exactly one
\* of the outcomes NoMatch (404), ManyMatches (409) and OneMatch (update
\* attempted), and which one is decided by the number of search results
\* whose normalized title is the normalized id: none, two or more, one.
OutcomeByMatchCount ==
    \A r \in Req :
        (Searched(r) /\ ~BlankId(r)) =>
            LET n == Cardinality(MatchingResults(r))
            IN  /\ Cardinality({o \in {"none", "many", "one"} :
                        \/ o = "none" /\ NoMatch(r)
                        \/ o = "many" /\ ManyMatches(r)
                        \/ o = "one" /\ OneMatch(r)}) = 1
                /\ NoMatch(r) <=> n = 0
                /\ ManyMatches(r) <=> n >= 2
                /\ OneMatch(r) <=> n = 1

\* The first scan found two pages titled like its id and was answered 409;
\* the second, whose search answered one of the two alone, went on to the
\* update.
OutcomeByMatchCountWitness ==
    /\ ManyMatches(1)
    /\ Cardinality(MatchingResults(1)) = 2
    /\ OneMatch(2)
    /\ Cardinality(MatchingResults(2)) = 1
    /\ Len(req[2].results) >= 2
    /\ req[1].scannedId = req[2].scannedId

\* Every update call of a scan names '2025-WD' and a page titled like the
\* scanned id of its request.
UpdateCallsNameMatchedPage ==
    \A r \in Req : \A i \in UpdateCalls(r) :
        /\ req[r].calls[i].prop = "2025-WD"
        /\ WithoutWhiteSpace(PageTitle(req[r].calls[i].page))
                = WithoutWhiteSpace(req[r].scannedId)

\* A step changes the check box of a page only by setting it, and only with
\* an update call of some request to that page.
StoreWrittenByUpdateCall ==
    \A p \in Pages :
        checked'[p] # checked[p] =>
            /\ checked'[p] = TRUE
            /\ \E r \in Req :
                    /\ Len(req'[r].calls) = Len(req[r].calls) + 1
                    /\ req'[r].calls[Len(req'[r].calls)] = Call("update", p, "2025-WD")

\* C30: across any sequence of scan requests, an update call goes only to a
\* page whose normalized title is the normalized scanned id of its request
\* and names only '2025-WD', set to true; the scan writes no other page and
\* no other property.
ScanWritesOnlyMatchedAttendance ==
    []UpdateCallsNameMatchedPage /\ [][StoreWrittenByUpdateCall]_vars

\* A scan of ' 12 ' updated the page titled ' 1 2'; the page titled '12',
\* which its search did not answer, and the page titled 'ab' kept their
\* check box unset.
ScanWritesOnlyMatchedAttendanceWitness ==
    \E r \in Req :
        /\ req[r].id = JsString(<<" ", "1", "2", " ">>)
        /\ UpdateCalls(r) # {}
        /\ \A i \in UpdateCalls(r) : req[r].calls[i].page = 2
        /\ checked = <<FALSE, TRUE, FALSE>>

\* Both scans are for the same id, found exactly one page titled like it,
\* had every upstream call answered and have finished.
BothScansFinished ==
    /\ req[1].scannedId = req[2].scannedId
    /\ \A r \in Req :
            /\ req[r].pc = "done"
            /\ req[r].failed = ""
            /\ Searched(r)
            /\ Cardinality(TitleMatches(r)) = 1

\* C23: however the upstream calls of two concurrent scans for the same id
\* with exactly one exact-title match interleave, both are answered 200 and
\* the check box of the page is true once both have finished.
RacingScansBothSucceed ==
    BothScansFinished =>
        \A r \in Req :
            /\ req[r].response.status = 200
            /\ \A p \in TitleMatches(r) : checked[p]

\* Two scans for the same id matched the same page and both finished with
\* 200; the second to arrive updated the page first, so the first to arrive
\* found the check box set already.
RacingScansWitness ==
    /\ BothScansFinished
    /\ req[1].page.id = req[2].page.id
    /\ req[1].before = TRUE
    /\ req[2].before = FALSE
    /\ \A r \in Req : req[r].response.status = 200
    /\ checked[req[1].page.id]

\* What the edge worker answers a scan with, from the request and the
\* answers of the upstream alone.
WorkerStatus(r) ==
    IF BlankId(r) THEN 400
    ELSE IF req[r].failed # "" THEN 500
    ELSE IF Cardinality(MatchingResults(r)) = 0 THEN 404
    ELSE IF Cardinality(MatchingResults(r)) >= 2 THEN 409
    ELSE 200

\* C21: for the same scan request and the same upstream answers every host
\* returns the status the edge worker returns and issues the page update
\* the edge worker issues.
HostsAnswerAlike ==
    \A r \in Req :
        req[r].pc = "done" =>
            /\ req[r].response.status = WorkerStatus(r)
            /\ UpdateCalls(r) # {} <=>
                    /\ ~BlankId(r)
                    /\ Searched(r)
                    /\ Cardinality(MatchingResults(r)) = 1

\* C24: the search asks for at most 20 results, so when exactly one page
\* titled like the id is among the first 20 of the ranking and another lies
\* beyond them, the scan takes the visible one for unique, updates it and
\* answers 200, not 409.
DuplicateBeyondCapInvisible ==
    (pureDone /\ pureOp = "scanCapped") =>
        LET ranking == pureIn[2]
            titled == {i \in 1..Len(ranking) :
                        WithoutWhiteSpace(ranking[i].title) = WithoutWhiteSpace(pureIn[3])}
            visible == {i \in titled : i <= ScanPageSize}
        IN  (Cardinality(visible) = 1 /\ titled # visible) =>
                /\ pureOut.status = 200
                /\ \A i \in visible : pureOut.pageId = ranking[i].id

\* The 20th and the 21st page of the ranking are both titled like the id;
\* the scan updated the 20th and answered 200.
DuplicateBeyondCapWitness ==
    /\ pureDone
    /\ pureOp = "scanCapped"
    /\ \A i \in 1..Len(pureIn[2]) :
            pureIn[2][i].title # <<"A", "B">> <=> i \in {20, 21}
    /\ pureOut.status = 200
    /\ pureOut.pageId = 20

\* The update calls of the request.
RouteUpdateCalls == {i \in 1..Len(http.calls) : http.calls[i] = "update"}

\* C26: a property request answered 400 by the route itself (a field is
\* missing, the property is not on the page, its type is unsupported or the
\* value is no number) has issued no update call, and one answered 200 has
\* issued exactly one update call, whose body names the requested property
\* and no other.
PropertyRouteFrame ==
    (http.pc = "done" /\ http.request.method = "PATCH"
        /\ http.request.path = PathProperty) =>
        /\ (http.status = 400 /\ ~http.failed) =>
                RouteUpdateCalls = {} /\ http.written = <<>>
        /\ http.status = 200 =>
                /\ Cardinality(RouteUpdateCalls) = 1
                /\ Len(http.written) = 1
                /\ http.written[1].name = trim(http.request.propertyName.s)

\* The worker was asked to set 'checkbox' to true and answered 200 after
\* one retrieve and one update naming 'checkbox' alone.
PropertyRouteFrameWitness ==
    /\ http.pc = "done"
    /\ http.host = "worker"
    /\ http.request.propertyName = JsString(<<"checkbox">>)
    /\ http.request.value = JsBoolean(TRUE)
    /\ http.status = 200
    /\ http.calls = <<"retrieve", "update">>
    /\ http.written = <<[name |-> <<"checkbox">>, value |-> http.typed]>>

\* C22: in every reachable state of the browser client at most one scan
\* request sent by syncScannedIdToNotion is outstanding, and the in-flight
\* flag is set exactly while one is.
OneSyncOutstanding ==
    /\ Len(requests) <= 1
    /\ syncInFlight <=> requests # <<>>

\* A scan request is outstanding, and a detection of another value made
\* while it was, which passed the duplicate test, sent none.
OneSyncOutstandingWitness ==
    /\ Len(requests) = 1
    /\ \E k \in DetectionEvents :
            /\ events[k].busy
            /\ events[k].accepted
            /\ ~events[k].sync
            /\ trim(events[k].code) # requests[1]

\* The detections that come next after a clear.
FirstAfterClear ==
    {k \in DetectionEvents :
        \E c \in 1..(k - 1) :
            /\ events[c].kind = "clear"
            /\ DetectionEvents \cap (c..(k - 1)) = {}}

\* C27: the next detection after a clear sends a scan request for its
\* value unless a scan request is in flight at that moment, also when the
\* clear ran while a request was in flight that completed afterwards.
DetectionAfterClearSyncs ==
    \A k \in FirstAfterClear : events[k].busy \/ events[k].sync

\* A step that ends a scan request.
SyncEnds == Len(requests') < Len(requests)

\* C29: every sync that was started has its in-flight flag reset once its
\* request has completed, with success or not, so the flag does not stay
\* set for ever; and a status dialog, success or error, is shown by the step
\* that ends a sync and by no other step.
InFlightFlagIsReset ==
    /\ syncInFlight ~> ~syncInFlight
    /\ [][/\ SyncEnds => ~syncInFlight' /\ dialog' \in {"success", "error"}
          /\ ~SyncEnds => dialog' \in {dialog, ""}]_vars

\* A sync has ended with an error: its dialog is shown, the flag is reset
\* and the detection made after it sent the next request.
InFlightFlagIsResetWitness ==
    /\ dialog = "error"
    /\ syncInFlight
    /\ Len(requests) = 1
    /\ \E k \in DetectionEvents :
            /\ events[k].sync
            /\ ~events[k].busy
            /\ k > 1
            /\ events[1].sync

\* C28: at any moment at most one detection handler is registered, and the
\* decoder is initialised at most once per running session, calls of
\* startScanner made while an earlier one awaits Quagga.init included.
OneHandlerOneInit ==
    /\ Cardinality(cam.handlers) <= 1
    /\ Cardinality(cam.inits \cup Initialising(cam)) <= 1

====
